---- MODULE Spec2Model ----
(***************************************************************************)
(* Model of the data-to-tensor preprocessing pipeline, of the shape        *)
(* reconciliation done before training, and of the sessions that drive     *)
(* them in the neural-network-interpreter application:                     *)
(*   utils/dataProcessing.ts      processData, normalizeData, splitData,   *)
(*                                predictOptimalArchitecture               *)
(*   services/modelService.ts     createModel, trainModel, predict         *)
(*   services/modelController.ts  ModelController                          *)
(*   App.tsx                      the handlers of the App component        *)
(*                                                                         *)
(* Numbers are modelled exactly (integers and rationals); the float32      *)
(* rounding of the tensor library is not modelled.  A tensor is modelled   *)
(* as the sequence of its rows, a row as the sequence of its entries.      *)
(* Array indices keep the 0-based values of the code; positions of TLA+    *)
(* sequences are 1-based, so element i of an array a is a[i + 1].          *)
(***************************************************************************)
EXTENDS Integers, Sequences, FiniteSets, TLC

VARIABLES
    splitIn,     \* arguments of the splitData call under way
    splitOut,    \* what splitData returned, or NoResult
    processIn,   \* arguments of the processData call under way
    datasetInfo, \* what processData returned (or the error it threw), or NoResult
    trainIn,     \* arguments of the trainModel call under way
    trainOut,    \* how far trainModel got and what it handed to fit
    prediction,  \* arguments and result of the predict call, or NoResult
    controller,  \* the fields of the ModelController singleton
    calls,       \* the calls of its asynchronous methods: the activation
                 \* record of each call in flight, the result of each ended
    app,         \* the state of the App component and the calls of its
                 \* asynchronous handlers
    architecture \* the dataset description handed to an architecture
                 \* heuristic, and the parameters it returned

vars == <<splitIn, splitOut, processIn, datasetInfo, trainIn, trainOut,
          prediction, controller, calls, app, architecture>>

\* the variables of the functions called on their own
functionVars == <<splitIn, splitOut, processIn, datasetInfo, trainIn, trainOut,
                  prediction, architecture>>

NoResult == [done |-> FALSE]
NoCall == [called |-> FALSE]

\* the variables of the operations that a specification does not exercise
NotLoaded == [loaded |-> FALSE]
laterVars == <<prediction, controller, calls, app, architecture>>
LaterIdle ==
    /\ prediction = NoResult
    /\ controller = NotLoaded
    /\ calls = NotLoaded
    /\ app = NotLoaded
    /\ architecture = NoResult

(***************************************************************************)
(* Generic helpers                                                         *)
(***************************************************************************)
Range(s) == {s[i] : i \in 1..Len(s)}

\* Array.prototype.slice(from) and slice(0, to), 0-based, to exclusive
SliceTo(s, to) == SubSeq(s, 1, to)
SliceFrom(s, from) == SubSeq(s, from + 1, Len(s))

\* Math.round of the non-negative rational num / den (den > 0):
\* the nearest integer, a tie going up.
MathRound(num, den) == (2 * num + den) \div (2 * den)

\* all orders in which tf.util.shuffle can leave the array 0 .. n-1
Shuffles(n) ==
    {p \in [1..n -> 0..(n - 1)] : \A i, j \in 1..n : p[i] = p[j] => i = j}

\* tf.gather(tensor, indices): row k of the result is row indices[k]
Gather(tensor, indices) ==
    [k \in 1..Len(indices) |-> tensor[indices[k] + 1]]

(***************************************************************************)
(* Bounds                                                                  *)
(***************************************************************************)
MaxSamples == 4

\* rows of the small datasets, where every target column is tried
MaxRows == 3

\* rows of the long datasets, whose targets are mostly distinct numbers
MaxRamp == 11

\* test fractions in [0, 1], as rationals
Fractions ==
    {[num |-> 0, den |-> 1], [num |-> 1, den |-> 10], [num |-> 1, den |-> 5],
     [num |-> 1, den |-> 4], [num |-> 1, den |-> 3], [num |-> 1, den |-> 2],
     [num |-> 5, den |-> 8], [num |-> 3, den |-> 4], [num |-> 1, den |-> 1]}

DefaultTestFraction == [num |-> 1, den |-> 5]

(***************************************************************************)
(* splitData (utils/dataProcessing.ts)                                     *)
(***************************************************************************)
NumTestExamples(numExamples, testFraction) ==
    MathRound(numExamples * testFraction.num, testFraction.den)

TrainIndices(indices, numTrainExamples) == SliceTo(indices, numTrainExamples)

TestIndicesFromStart(indices, numTrainExamples) ==
    SliceFrom(indices, Len(indices) - numTrainExamples)

TestIndices(indices, numTrainExamples) == SliceFrom(indices, numTrainExamples)

\* Array.prototype.reverse, used to gather the outputs in another order
Reversed(s) == [k \in 1..Len(s) |-> s[Len(s) + 1 - k]]

SplitDataOutputsReversed(features, outputs, testFraction, indices) ==
    LET numExamples == Len(features)
        numTestExamples == NumTestExamples(numExamples, testFraction)
        numTrainExamples == numExamples - numTestExamples
        trainIndices == TrainIndices(indices, numTrainExamples)
        testIndices == TestIndices(indices, numTrainExamples)
    IN  [done |-> TRUE,
         trainIndices |-> trainIndices,
         testIndices |-> testIndices,
         trainX |-> Gather(features, trainIndices),
         trainY |-> Gather(outputs, Reversed(trainIndices)),
         testX |-> Gather(features, testIndices),
         testY |-> Gather(outputs, Reversed(testIndices))]

\* splitData with the order the shuffle produced made explicit
SplitDataWith(features, outputs, testFraction, indices) ==
    LET numExamples == Len(features)
        numTestExamples == NumTestExamples(numExamples, testFraction)
        numTrainExamples == numExamples - numTestExamples
        trainIndices == TrainIndices(indices, numTrainExamples)
        testIndices == TestIndices(indices, numTrainExamples)
    IN  [done |-> TRUE,
         trainIndices |-> trainIndices,
         testIndices |-> testIndices,
         trainX |-> Gather(features, trainIndices),
         trainY |-> Gather(outputs, trainIndices),
         testX |-> Gather(features, testIndices),
         testY |-> Gather(outputs, testIndices)]

\* a features tensor and an outputs tensor of n rows; row i holds the
\* sample number, so that a gathered row tells which sample it came from
SampleTensor(n, tag) == [i \in 1..n |-> <<tag, i - 1>>]

SplitInit ==
    /\ LaterIdle
    /\ processIn = NoCall
    /\ datasetInfo = NoResult
    /\ trainIn = NoCall
    /\ trainOut = NoResult
    /\ \E n \in 0..MaxSamples, f \in Fractions :
          splitIn = [features |-> SampleTensor(n, "x"),
                     outputs |-> SampleTensor(n, "y"),
                     testFraction |-> f]
    /\ splitOut = NoResult

splitData ==
    /\ ~splitOut.done
    /\ \E indices \in Shuffles(Len(splitIn.features)) :
          splitOut' = SplitDataWith(splitIn.features, splitIn.outputs,
                                    splitIn.testFraction, indices)
    /\ UNCHANGED <<splitIn, processIn, datasetInfo, trainIn, trainOut>>
    /\ UNCHANGED laterVars

SplitNext == splitData

SplitSpec == SplitInit /\ [][SplitNext]_vars

(***************************************************************************)
(* C1: splitData partitions the sample indices: the train and the test     *)
(* index lists are disjoint, hold no index twice, together hold exactly    *)
(* 0 .. n-1, the test set has round(n * f) rows and the train set the      *)
(* other n - round(n * f).                                                 *)
(***************************************************************************)
\* r is num/den rounded to the nearest integer: r - 1/2 <= num/den < r + 1/2
IsRounded(r, num, den) ==
    /\ (2 * r - 1) * den <= 2 * num
    /\ 2 * num < (2 * r + 1) * den

C1_SplitPartition ==
    splitOut.done =>
        LET n == Len(splitIn.features)
            f == splitIn.testFraction
            tr == splitOut.trainIndices
            te == splitOut.testIndices
        IN  /\ Range(tr) \cap Range(te) = {}
            /\ Range(tr) \cup Range(te) = 0..(n - 1)
            /\ Cardinality(Range(tr)) = Len(tr)
            /\ Cardinality(Range(te)) = Len(te)
            /\ IsRounded(Len(te), n * f.num, f.den)
            /\ Len(tr) = n - Len(te)
            /\ Len(splitOut.testX) = Len(te) /\ Len(splitOut.testY) = Len(te)
            /\ Len(splitOut.trainX) = Len(tr) /\ Len(splitOut.trainY) = Len(tr)

\* a split with a tie in the rounding (n * f = 1.5) and both parts non-empty
C1_Witness ==
    /\ splitOut.done
    /\ Len(splitIn.features) = 3
    /\ splitIn.testFraction = [num |-> 1, den |-> 2]
    /\ Len(splitOut.testIndices) = 2
    /\ Len(splitOut.trainIndices) = 1

(***************************************************************************)
(* C16: splitData keeps the rows of X and Y together: at every position k  *)
(* row k of trainX and row k of trainY are the feature row and the target  *)
(* row of one and the same sample of the input, and so for testX, testY.   *)
(***************************************************************************)
\* xs[k] and ys[k] are rows of one sample of the input, for every k
RowsCorrespond(xs, ys) ==
    /\ Len(xs) = Len(ys)
    /\ \A k \in 1..Len(xs) :
          \E i \in 1..Len(splitIn.features) :
             /\ xs[k] = splitIn.features[i]
             /\ ys[k] = splitIn.outputs[i]

C16_RowCorrespondence ==
    splitOut.done =>
        /\ RowsCorrespond(splitOut.trainX, splitOut.trainY)
        /\ RowsCorrespond(splitOut.testX, splitOut.testY)

\* a split of 4 samples in which the shuffle moved every sample and both
\* parts have two rows
C16_Witness ==
    /\ splitOut.done
    /\ Len(splitIn.features) = 4
    /\ splitOut.trainIndices = <<3, 1>>
    /\ splitOut.testIndices = <<0, 2>>
    /\ splitOut.trainY = <<<<"y", 3>>, <<"y", 1>>>>
    /\ splitOut.testX = <<<<"x", 0>>, <<"x", 2>>>>

(***************************************************************************)
(* Cells of a parsed row, as the CSV parser with dynamicTyping gives them: *)
(* a number, a (non-numeric) string, a boolean, null for an empty cell,    *)
(* undefined for a key the row does not have.                              *)
(***************************************************************************)
Num(n) == [kind |-> "number", num |-> n, str |-> ""]
Str(t) == [kind |-> "string", num |-> 0, str |-> t]
Bool(b) == [kind |-> "boolean", num |-> IF b THEN 1 ELSE 0, str |-> ""]
Null == [kind |-> "null", num |-> 0, str |-> ""]
Undefined == [kind |-> "undefined", num |-> 0, str |-> ""]

\* the number NaN, which the CSV parser never produces but a caller of
\* processData can put in a row
NaNCell == [kind |-> "number", num |-> 0, str |-> "NaN"]

\* the typeof operator
TypeOf(cell) == IF cell.kind = "null" THEN "object" ELSE cell.kind

\* A JavaScript number held in a tensor or a number[]: the rational
\* num / den, den > 0, and NaN as 0 / 0.
Rat(a, b) == [num |-> a, den |-> b]
Int2Num(n) == Rat(n, 1)
NaN == Rat(0, 0)
IsNaN(x) == x.den = 0

\* Number(value): a non-numeric string and undefined give NaN
ToNumber(cell) ==
    CASE cell.kind = "number" -> IF cell = NaNCell THEN NaN ELSE Int2Num(cell.num)
      [] cell.kind = "boolean" -> Int2Num(cell.num)
      [] cell.kind = "null" -> Int2Num(0)
      [] OTHER -> NaN

\* Number(value) || 0, an integer here since NaN and 0 both give 0
ToNumberOrZero(cell) == IF IsNaN(ToNumber(cell)) THEN 0 ELSE ToNumber(cell).num

\* a row object: its keys in insertion order, each with its cell
ObjectKeys(row) == [i \in 1..Len(row) |-> row[i].name]

RowGet(row, name) ==
    IF \E i \in 1..Len(row) : row[i].name = name
    THEN row[CHOOSE i \in 1..Len(row) : row[i].name = name].cell
    ELSE Undefined

\* Array.prototype.filter
RECURSIVE FilterOut(_, _)
FilterOut(s, x) ==
    IF s = <<>> THEN <<>>
    ELSE IF s[1] = x THEN FilterOut(Tail(s), x)
         ELSE <<s[1]>> \o FilterOut(Tail(s), x)

\* Array.from(new Set(s)): the distinct values in order of first occurrence
RECURSIVE ArrayFromSet(_)
ArrayFromSet(s) ==
    IF s = <<>> THEN <<>>
    ELSE LET init == ArrayFromSet(SubSeq(s, 1, Len(s) - 1))
             last == s[Len(s)]
         IN  IF last \in Range(init) THEN init ELSE Append(init, last)

\* the === operator on cells: NaN equals nothing, itself included
StrictEquals(a, b) == a = b /\ a # NaNCell

\* Array.prototype.indexOf: 0-based, -1 when absent; it compares with ===
IndexOf(s, x) ==
    IF \E i \in 1..Len(s) : StrictEquals(s[i], x)
    THEN (CHOOSE i \in 1..Len(s) :
             StrictEquals(s[i], x) /\ \A j \in 1..(i - 1) : s[j] # x) - 1
    ELSE -1

RECURSIVE SumSeq(_)
SumSeq(s) == IF s = <<>> THEN 0 ELSE s[1] + SumSeq(Tail(s))

Column(tensor, j) == [i \in 1..Len(tensor) |-> tensor[i][j]]

(***************************************************************************)
(* normalizeData (utils/dataProcessing.ts).  The tensor holds integers.    *)
(* With n rows and column sum S, the mean is S / n, the variance is        *)
(* (sum of (n x - S)^2) / n^3 and the standard deviation its square root,  *)
(* kept as the radicand [num, den]: it is 0 exactly when num is 0.         *)
(***************************************************************************)
ColumnMean(col) == Rat(SumSeq(col), Len(col))

ColumnStd(col) ==
    LET n == Len(col)
        S == SumSeq(col)
    IN  [sqrtOf |-> Rat(SumSeq([i \in 1..n |-> (n * col[i] - S) * (n * col[i] - S)]),
                        n * n * n)]

StdOne == [sqrtOf |-> Rat(1, 1)]
StdIsZero(std) == std.sqrtOf.num = 0

NonZeroStdUnguarded(std) == std

\* stds.map(std => std === 0 ? 1 : std)
NonZeroStd(std) == IF StdIsZero(std) THEN StdOne ELSE std

\* (value - mean) / std, kept as the exact difference over the std
ZScore(value, mean, std) ==
    [diff |-> Rat(value * mean.den - mean.num, mean.den), over |-> std]

normalizeData(tensor) ==
    LET featureSize == Len(tensor[1])
        means == [i \in 1..featureSize |-> ColumnMean(Column(tensor, i))]
        stds == [i \in 1..featureSize |-> ColumnStd(Column(tensor, i))]
        nonZeroStds == [i \in 1..featureSize |-> NonZeroStd(stds[i])]
    IN  [normalizedData |->
             [r \in 1..Len(tensor) |->
                 [i \in 1..featureSize |->
                     ZScore(tensor[r][i], means[i], nonZeroStds[i])]],
         means |-> means,
         stds |-> stds]

(***************************************************************************)
(* processData (utils/dataProcessing.ts)                                   *)
(***************************************************************************)
ClassificationThreshold == 10

RegressionEpsilonInverse == 100000000

FeatureNamesWithoutLast(rows, targetColumn) ==
    SubSeq(ObjectKeys(rows[1]), 1, Len(ObjectKeys(rows[1])) - 1)

FeatureNames(rows, targetColumn) == FilterOut(ObjectKeys(rows[1]), targetColumn)

RawFeatures(rows, features) ==
    [r \in 1..Len(rows) |-> [i \in 1..Len(features) |-> RowGet(rows[r], features[i])]]

RawOutputs(rows, targetColumn) ==
    [r \in 1..Len(rows) |-> RowGet(rows[r], targetColumn)]

\* line 71
IsClassification(rawOutputs) ==
    \/ TypeOf(rawOutputs[1]) = "string"
    \/ Len(ArrayFromSet(rawOutputs)) < ClassificationThreshold

NumericFeatures(rawFeatures) ==
    [r \in 1..Len(rawFeatures) |->
        [i \in 1..Len(rawFeatures[r]) |-> ToNumberOrZero(rawFeatures[r][i])]]

OneHotShifted(width, index) ==
    [k \in 1..width |-> IF k = index + 2 THEN Int2Num(1) ELSE Int2Num(0)]

\* new Array(width).fill(0) with oneHot[index] = 1; an index of -1 sets
\* no element of the array
OneHot(width, index) ==
    [k \in 1..width |-> IF k = index + 1 THEN Int2Num(1) ELSE Int2Num(0)]

\* (value - min) / (max - min + 1e-8) for every row; NaN throughout when
\* one of the values is NaN
RescaleOutputs(nums) ==
    IF \E r \in 1..Len(nums) : IsNaN(nums[r])
    THEN [r \in 1..Len(nums) |-> <<NaN>>]
    ELSE LET vals == {nums[r].num : r \in 1..Len(nums)}
             min == CHOOSE v \in vals : \A w \in vals : v <= w
             max == CHOOSE v \in vals : \A w \in vals : v >= w
         IN  [r \in 1..Len(nums) |->
                 <<Rat((nums[r].num - min) * RegressionEpsilonInverse,
                       (max - min) * RegressionEpsilonInverse + 1)>>]

NoLabels == <<>>

OutputLabels(rawOutputs) ==
    IF IsClassification(rawOutputs) /\ TypeOf(rawOutputs[1]) = "string"
    THEN ArrayFromSet(rawOutputs)
    ELSE NoLabels

OutputValues(rawOutputs) ==
    IF IsClassification(rawOutputs)
    THEN IF TypeOf(rawOutputs[1]) = "string"
         THEN LET outputLabels == ArrayFromSet(rawOutputs)
              IN  [r \in 1..Len(rawOutputs) |->
                      OneHot(Len(outputLabels), IndexOf(outputLabels, rawOutputs[r]))]
         ELSE [r \in 1..Len(rawOutputs) |-> <<ToNumber(rawOutputs[r])>>]
    ELSE RescaleOutputs([r \in 1..Len(rawOutputs) |-> ToNumber(rawOutputs[r])])

\* processData with the order the shuffle of splitData produced made
\* explicit.  Reading data[0] of an empty array throws a TypeError.  So does
\* reading featuresResult[0].length (line 134) when no column is a feature:
\* arraySync() of a tensor with no elements is the empty array.
ProcessDataWith(rows, targetColumn, testSize, indices) ==
    IF rows = <<>>
    THEN [done |-> TRUE, ok |-> FALSE, error |-> "TypeError"]
    ELSE IF FeatureNames(rows, targetColumn) = <<>>
    THEN [done |-> TRUE, ok |-> FALSE, error |-> "TypeError"]
    ELSE
    LET features == FeatureNames(rows, targetColumn)
        rawOutputs == RawOutputs(rows, targetColumn)
        numericFeatures == NumericFeatures(RawFeatures(rows, features))
        normalized == normalizeData(numericFeatures)
        outputValues == OutputValues(rawOutputs)
        split == SplitDataWith(normalized.normalizedData, outputValues,
                               testSize, indices)
    IN  [done |-> TRUE, ok |-> TRUE,
         features |-> features,
         target |-> targetColumn,
         numericFeatures |-> numericFeatures,
         outputValues |-> outputValues,
         isClassification |-> IsClassification(rawOutputs),
         hasLabels |-> IsClassification(rawOutputs)
                          /\ TypeOf(rawOutputs[1]) = "string",
         outputLabels |-> OutputLabels(rawOutputs),
         tensors |-> [trainX |-> split.trainX, trainY |-> split.trainY,
                      testX |-> split.testX, testY |-> split.testY,
                      means |-> normalized.means, stds |-> normalized.stds],
         trainIndices |-> split.trainIndices,
         testIndices |-> split.testIndices,
         originalData |-> rows]

(***************************************************************************)
(* The datasets processData is run on.  A small dataset has up to MaxRows  *)
(* rows, any target column over TargetCells and one feature column that    *)
(* repeats one of FeaturePatterns.  A long dataset (a ramp) has up to      *)
(* MaxRamp rows with the targets 0, 1, 2, ... and two feature columns; in  *)
(* its variants one target is a string or repeats an earlier number.       *)
(***************************************************************************)
TargetCells == {Str("A"), Str("B"), Str("C"), Num(0), Num(1)}

FeaturePatterns ==
    {<<Num(1)>>, <<Num(1), Num(3)>>, <<Num(2), Str("x")>>,
     <<Bool(TRUE), Null, Num(4)>>}

Cyclic(pattern, r) == pattern[((r - 1) % Len(pattern)) + 1]

SmallDataset(targets, pattern) ==
    [r \in 1..Len(targets) |->
        <<[name |-> "label", cell |-> targets[r]],
          [name |-> "x1", cell |-> Cyclic(pattern, r)]>>]

SmallDatasets ==
    {SmallDataset(targets, pattern) :
        targets \in UNION {[1..n -> TargetCells] : n \in 1..MaxRows},
        pattern \in FeaturePatterns}

RampVariants == {"plain", "stringFirst", "stringLast", "repeatLast"}

RampTarget(k, variant, r) ==
    CASE variant = "stringFirst" /\ r = 1 -> Str("A")
      [] variant = "stringLast" /\ r = k -> Str("A")
      [] variant = "repeatLast" /\ r = k -> Num(0)
      [] OTHER -> Num(r - 1)

RampDataset(k, variant) ==
    [r \in 1..k |->
        <<[name |-> "x1", cell |-> Num(r % 3)],
          [name |-> "x2", cell |-> Num(7)],
          [name |-> "label", cell |-> RampTarget(k, variant, r)]>>]

RampDatasets == {RampDataset(k, v) : k \in 1..MaxRamp, v \in RampVariants}

Datasets == {<<>>} \cup SmallDatasets \cup RampDatasets

TestSizes == {DefaultTestFraction, Rat(1, 2)}

\* the orders of the shuffle that are tried: all of them up to MaxSamples
\* rows, beyond that the identity, the reversal and a rotation
BoundedShuffles(n) ==
    IF n <= MaxSamples THEN Shuffles(n)
    ELSE {[i \in 1..n |-> i - 1], [i \in 1..n |-> n - i], [i \in 1..n |-> i % n]}

\* the datasets that are also processed with a target column, "class",
\* that none of their rows has
MissingTargetDatasets == {d \in SmallDatasets : Len(d) <= 2}

ProcessCalls ==
    [called : {TRUE}, data : Datasets, targetColumn : {"label"},
     testSize : TestSizes]
    \cup
    [called : {TRUE}, data : MissingTargetDatasets, targetColumn : {"class"},
     testSize : TestSizes]

ProcessInit ==
    /\ LaterIdle
    /\ processIn \in ProcessCalls
    /\ datasetInfo = NoResult
    /\ splitIn = NoCall
    /\ splitOut = NoResult
    /\ trainIn = NoCall
    /\ trainOut = NoResult

processData ==
    /\ processIn.called
    /\ ~datasetInfo.done
    /\ \E indices \in BoundedShuffles(Len(processIn.data)) :
          datasetInfo' = ProcessDataWith(processIn.data, processIn.targetColumn,
                                         processIn.testSize, indices)
    /\ UNCHANGED <<processIn, splitIn, splitOut, trainIn, trainOut>>
    /\ UNCHANGED laterVars

ProcessNext == processData

ProcessSpec == ProcessInit /\ [][ProcessNext]_vars

(***************************************************************************)
(* processData called by other code than the upload of a CSV file: the     *)
(* target cells are strings or the number NaN.                             *)
(***************************************************************************)
DirectTargetCells == {Str("A"), Str("B"), NaNCell}

DirectDatasets ==
    {SmallDataset(targets, pattern) :
        targets \in UNION {[1..n -> DirectTargetCells] : n \in 1..MaxRows},
        pattern \in FeaturePatterns}

DirectInit ==
    /\ LaterIdle
    /\ \E d \in DirectDatasets :
          processIn = [called |-> TRUE, data |-> d, targetColumn |-> "label",
                       testSize |-> DefaultTestFraction]
    /\ datasetInfo = NoResult
    /\ splitIn = NoCall
    /\ splitOut = NoResult
    /\ trainIn = NoCall
    /\ trainOut = NoResult

DirectNext == processData

DirectSpec == DirectInit /\ [][DirectNext]_vars

\* the target column of the call, as read from the rows
TargetColumnCells ==
    [r \in 1..Len(processIn.data) |->
        RowGet(processIn.data[r], processIn.targetColumn)]

DistinctTargets == {TargetColumnCells[r] : r \in 1..Len(processIn.data)}

(***************************************************************************)
(* C2: no standard deviation stored in tensors.stds is 0: a computed 0 is  *)
(* stored as 1.                                                            *)
(***************************************************************************)
C2_NoZeroStd ==
    (datasetInfo.done /\ datasetInfo.ok) =>
        \A i \in 1..Len(datasetInfo.tensors.stds) :
            ~StdIsZero(datasetInfo.tensors.stds[i])

(***************************************************************************)
(* C3: every one-hot encoded target row of a classification dataset has    *)
(* exactly one 1, zeros elsewhere, and the 1 stands at the index that the  *)
(* row's original target value has in outputLabels.                        *)
(***************************************************************************)
OneHotEncoded == datasetInfo.done /\ datasetInfo.ok /\ datasetInfo.hasLabels

\* k is the 0-based index of value in labels: its first (and only) place
IsIndexIn(labels, k, value) ==
    /\ k + 1 \in 1..Len(labels)
    /\ labels[k + 1] = value
    /\ \A j \in 1..Len(labels) : labels[j] = value => j = k + 1

TargetsAreStrings ==
    \A r \in 1..Len(processIn.data) : TargetColumnCells[r].kind = "string"

C4_ClassificationRule ==
    (datasetInfo.done /\ datasetInfo.ok) =>
        (datasetInfo.isClassification <=>
            (Cardinality(DistinctTargets) <= 10 \/ TargetsAreStrings))

(***************************************************************************)
(* C5: all target rows have one width: 1 for regression and for binary     *)
(* classification (two distinct labels, strings or numbers), the number of *)
(* distinct labels for multi-class classification (more than two labels).  *)
(***************************************************************************)
ExpectedTargetWidth ==
    IF datasetInfo.isClassification /\ Cardinality(DistinctTargets) > 2
    THEN Cardinality(DistinctTargets)
    ELSE 1

C5_TargetWidth ==
    (datasetInfo.done /\ datasetInfo.ok) =>
        \A r \in 1..Len(datasetInfo.outputValues) :
            Len(datasetInfo.outputValues[r]) = ExpectedTargetWidth

(***************************************************************************)
(* C13: processData called with zero rows, or with a target column that is *)
(* not a key of the row objects, fails with an error before it encodes,    *)
(* normalizes or splits anything: it never returns a DatasetInfo.          *)
(***************************************************************************)
TargetColumnMissing ==
    \A r \in 1..Len(processIn.data) :
        processIn.targetColumn \notin Range(ObjectKeys(processIn.data[r]))

C13_SchemaErrors ==
    (datasetInfo.done /\ (processIn.data = <<>> \/ TargetColumnMissing)) =>
        ~datasetInfo.ok

(***************************************************************************)
(* C14: when the targets are one-hot encoded, a row whose target value is  *)
(* not found in the label list makes processData fail with an error: no    *)
(* DatasetInfo is returned in which such a row is encoded, as index 0 or   *)
(* as a row of zeros.                                                      *)
(***************************************************************************)
\* the lookup of the label list finds the target value of row r
LabelFound(r) ==
    \E j \in 1..Len(datasetInfo.outputLabels) :
        StrictEquals(datasetInfo.outputLabels[j], TargetColumnCells[r])

C14_UnknownLabelFails ==
    OneHotEncoded => \A r \in 1..Len(processIn.data) : LabelFound(r)

(***************************************************************************)
(* C17: normalizeData maps every value of a feature column whose values    *)
(* are all equal to exactly 0, never to NaN or Infinity, and every other   *)
(* value to (value - column mean) / column standard deviation, the         *)
(* standard deviation being that of the population (divisor n).            *)
(***************************************************************************)
\* the numbers of feature column i, before the normalization
FeatureColumn(i) == Column(datasetInfo.numericFeatures, i)

SumOfSquares(col) == SumSeq([r \in 1..Len(col) |-> col[r] * col[r]])

\* z is the number 0: 0 over something that is neither 0 nor NaN
IsExactlyZero(z) ==
    /\ z.diff.num = 0 /\ z.diff.den # 0
    /\ z.over.sqrtOf.num # 0 /\ z.over.sqrtOf.den # 0

\* z is (value - mean) / sqrt(variance) for the mean S / n and the
\* population variance (n * sum of squares - S * S) / (n * n) of col
IsZScoreOf(z, value, col) ==
    LET n == Len(col)
        S == SumSeq(col)
    IN  /\ z.diff.den # 0
        /\ z.diff.num * n = (value * n - S) * z.diff.den
        /\ z.over.sqrtOf.den # 0
        /\ z.over.sqrtOf.num * (n * n)
               = (n * SumOfSquares(col) - S * S) * z.over.sqrtOf.den

\* row is the normalized feature row of sample number index
IsNormalizedRowOf(row, index) ==
    \A i \in 1..Len(row) :
        LET col == FeatureColumn(i)
        IN  IF \A r \in 1..Len(col) : col[r] = col[1]
            THEN IsExactlyZero(row[i])
            ELSE IsZScoreOf(row[i], col[index + 1], col)

C17_ZeroVarianceToZero ==
    (datasetInfo.done /\ datasetInfo.ok) =>
        /\ \A k \in 1..Len(datasetInfo.tensors.trainX) :
              IsNormalizedRowOf(datasetInfo.tensors.trainX[k],
                                datasetInfo.trainIndices[k])
        /\ \A k \in 1..Len(datasetInfo.tensors.testX) :
              IsNormalizedRowOf(datasetInfo.tensors.testX[k],
                                datasetInfo.testIndices[k])

\* three rows with a varying column x1 and the constant column x2
C17_Witness ==
    /\ datasetInfo.done /\ datasetInfo.ok
    /\ datasetInfo.features = <<"x1", "x2">>
    /\ datasetInfo.numericFeatures = <<<<1, 7>>, <<2, 7>>, <<0, 7>>>>
    /\ Len(datasetInfo.tensors.trainX) = 2
    /\ datasetInfo.tensors.trainX[1][1].diff.num # 0
    /\ datasetInfo.tensors.trainX[1][2].diff.num = 0

(***************************************************************************)
(* createModel (services/modelService.ts).  The file holds the function    *)
(* twice: the first copy picks the loss from the task and the number of    *)
(* output units, the second compiles every classification model with       *)
(* categorical cross-entropy.                                              *)
(***************************************************************************)
CompiledLoss(isClassification, outputUnits) ==
    IF isClassification
    THEN IF outputUnits > 1 THEN "categoricalCrossentropy"
         ELSE "binaryCrossentropy"
    ELSE "meanSquaredError"

CompiledLossSecondCopy(isClassification, outputUnits) ==
    IF isClassification THEN "categoricalCrossentropy" ELSE "meanSquaredError"

\* the model as trainModel sees it: model.inputs[0].shape[1],
\* model.outputs[0].shape[1] and the loss it was compiled with
createModel(copy, inputShape, outputUnits, isClassification) ==
    [inputUnits |-> inputShape[1],
     outputUnits |-> outputUnits,
     isClassification |-> isClassification,
     loss |-> IF copy = 1 THEN CompiledLoss(isClassification, outputUnits)
              ELSE CompiledLossSecondCopy(isClassification, outputUnits)]

(***************************************************************************)
(* trainModel (services/modelService.ts, lines 126-281)                    *)
(***************************************************************************)
RatLess(a, b) == a.num * b.den < b.num * a.den

\* tensor.argMax(1) of one row: the 0-based index of its first largest entry
ArgMax(row) ==
    CHOOSE k \in 0..(Len(row) - 1) :
        /\ \A j \in 1..Len(row) : ~RatLess(row[k + 1], row[j])
        /\ \A j \in 1..k : RatLess(row[j], row[k + 1])

\* Math.round of any rational: floor(x + 1/2)
RoundNumber(x) == (2 * x.num + x.den) \div (2 * x.den)

\* tf.oneHot of one index: a row of zeros when the index is outside 0..depth-1
TfOneHot(index, depth) ==
    [k \in 1..depth |-> IF k = index + 1 THEN Int2Num(1) ELSE Int2Num(0)]

CollapseToMax(ys) ==
    [r \in 1..Len(ys) |->
        <<CHOOSE v \in Range(ys[r]) : \A w \in Range(ys[r]) : ~RatLess(v, w)>>]

\* ys.argMax(1).expandDims(1)
CollapseToIndex(ys) == [r \in 1..Len(ys) |-> <<Int2Num(ArgMax(ys[r]))>>]

\* tf.oneHot(tf.tensor1d(ys.dataSync().map(Math.round), 'int32'), numClasses)
ExpandToOneHot(ys, numClasses) ==
    [r \in 1..Len(ys) |-> TfOneHot(RoundNumber(ys[r][1]), numClasses)]

InputShapeMismatchOneWay(modelInputUnits, dataInputUnits) ==
    modelInputUnits > dataInputUnits

\* line 159
InputShapeMismatch(modelInputUnits, dataInputUnits) ==
    modelInputUnits # dataInputUnits

ReconcileAnyOneHot(modelOutputUnits, dataOutputUnits) ==
    CASE modelOutputUnits = dataOutputUnits -> "none"
      [] dataOutputUnits > 1 -> "argMax"
      [] modelOutputUnits > 1 /\ dataOutputUnits = 1 -> "oneHot"
      [] OTHER -> "throw"

\* lines 164-207: what is done about the output widths
Reconcile(modelOutputUnits, dataOutputUnits) ==
    CASE modelOutputUnits = dataOutputUnits -> "none"
      [] modelOutputUnits = 1 /\ dataOutputUnits > 1 -> "argMax"
      [] modelOutputUnits > 1 /\ dataOutputUnits = 1 -> "oneHot"
      [] OTHER -> "throw"

Reshape(how, ys, numClasses) ==
    CASE how = "argMax" -> CollapseToIndex(ys)
      [] how = "oneHot" -> ExpandToOneHot(ys, numClasses)
      [] OTHER -> ys

\* model.getConfig().loss is whatever the library keeps in the model's
\* configuration; line 212 takes it when it is a string
NotAString == [isString |-> FALSE, value |-> ""]
StringValue(v) == [isString |-> TRUE, value |-> v]

LossFunction(compilationDetails) ==
    IF compilationDetails.isString THEN compilationDetails.value ELSE "unknown"

\* shape[1] of a tensor with at least one row
Width(tensor) == Len(tensor[1])

NoError == [kind |-> "none", names |-> <<>>]
NoFit == [called |-> FALSE, xs |-> <<>>, ys |-> <<>>,
          hasValidation |-> FALSE, validationYs |-> <<>>]

Threw(kind, names, how) ==
    [done |-> TRUE, phase |-> "threw",
     error |-> [kind |-> kind, names |-> names],
     reshape |-> how, fit |-> NoFit, evaluated |-> FALSE]

\* trainModel from its entry to the call of model.fit (lines 132-251),
\* which runs without interruption
TrainModelEnter(model, trainingData, compilationDetails) ==
    LET modelInputUnits == model.inputUnits
        modelOutputUnits == model.outputUnits
        dataInputUnits == Width(trainingData.xs)
        dataOutputUnits == Width(trainingData.ys)
        how == Reconcile(modelOutputUnits, dataOutputUnits)
        ys == Reshape(how, trainingData.ys, modelOutputUnits)
        ysTest == IF trainingData.hasTest
                  THEN Reshape(how, trainingData.ysTest, modelOutputUnits)
                  ELSE <<>>
        lossFunction == LossFunction(compilationDetails)
    IN  IF InputShapeMismatch(modelInputUnits, dataInputUnits)
        THEN Threw("InputShapeMismatch",
                   <<modelInputUnits, dataInputUnits>>, "none")
        ELSE IF how = "throw"
        THEN Threw("CannotReshape",
                   <<dataOutputUnits, modelOutputUnits>>, "none")
        ELSE IF lossFunction = "categoricalCrossentropy" /\ Width(ys) = 1
        THEN Threw("CategoricalNeedsOneHot", <<Len(ys), Width(ys)>>, how)
        ELSE IF lossFunction = "binaryCrossentropy" /\ Width(ys) # 1
        THEN Threw("BinaryNeedsOneColumn", <<Len(ys), Width(ys)>>, how)
        ELSE [done |-> TRUE, phase |-> "fitting", error |-> NoError,
              reshape |-> how,
              fit |-> [called |-> TRUE, xs |-> trainingData.xs, ys |-> ys,
                       hasValidation |-> trainingData.hasTest,
                       validationYs |-> ysTest],
              evaluated |-> FALSE]

(***************************************************************************)
(* The calls of trainModel that are tried                                  *)
(***************************************************************************)
\* output units of a model and columns of a target tensor
MaxUnits == 3

\* input units of a model and columns of a feature tensor
MaxFeatures == 2

\* rows of a training tensor
MaxTrainRows == 2

\* the entries of a one-column target: class indices, some of them outside
\* the classes of the model, and a value between two integers
Scalars == {Rat(-1, 1), Int2Num(0), Rat(1, 2), Int2Num(1), Int2Num(3)}

\* the rows of a target of several columns: the one-hot rows and a row of
\* equal entries
TargetRows(width) ==
    IF width = 1 THEN {<<v>> : v \in Scalars}
    ELSE {TfOneHot(k, width) : k \in 0..(width - 1)}
            \cup {[k \in 1..width |-> Int2Num(1)]}

Tensors(rows, lengths) == UNION {[1..n -> rows] : n \in lengths}

FeatureTensor(n, width) == [r \in 1..n |-> [k \in 1..width |-> 0]]

TrainingDataSets ==
    UNION {
        {[xs |-> FeatureTensor(Len(ys), dataInputUnits), ys |-> ys,
          hasTest |-> FALSE, xsTest |-> <<>>, ysTest |-> <<>>] :
            ys \in Tensors(TargetRows(width), 1..MaxTrainRows)}
        \cup
        {[xs |-> FeatureTensor(Len(ys), dataInputUnits), ys |-> ys,
          hasTest |-> TRUE,
          xsTest |-> FeatureTensor(Len(ysTest), dataInputUnits),
          ysTest |-> ysTest] :
            ys \in Tensors(TargetRows(width), 1..MaxTrainRows),
            ysTest \in Tensors(TargetRows(width), 0..1)} :
        width \in 1..MaxUnits, dataInputUnits \in 1..MaxFeatures}

Models ==
    {createModel(copy, <<inputUnits>>, outputUnits, isClassification) :
        copy \in {1, 2}, inputUnits \in 1..MaxFeatures,
        outputUnits \in 1..MaxUnits, isClassification \in BOOLEAN}

\* what model.getConfig().loss can be for a model: the loss it was compiled
\* with, or no string at all
CompilationDetails(model) == {NotAString, StringValue(model.loss)}

TrainInit ==
    /\ LaterIdle
    /\ \E m \in Models, d \in TrainingDataSets :
          \E c \in CompilationDetails(m) :
             trainIn = [called |-> TRUE, model |-> m, trainingData |-> d,
                        compilationDetails |-> c]
    /\ trainOut = NoResult
    /\ splitIn = NoCall
    /\ splitOut = NoResult
    /\ processIn = NoCall
    /\ datasetInfo = NoResult

trainModel ==
    /\ trainIn.called
    /\ ~trainOut.done
    /\ trainOut' = TrainModelEnter(trainIn.model, trainIn.trainingData,
                                   trainIn.compilationDetails)
    /\ UNCHANGED <<trainIn, splitIn, splitOut, processIn, datasetInfo>>
    /\ UNCHANGED laterVars

\* model.fit resolves: the model is evaluated on the test tensors when
\* there are any, and trainModel returns (lines 253-276)
fitResolves ==
    /\ trainOut.done
    /\ trainOut.phase = "fitting"
    /\ trainOut' = [trainOut EXCEPT !.phase = "returned",
                                    !.evaluated = trainOut.fit.hasValidation]
    /\ UNCHANGED <<trainIn, splitIn, splitOut, processIn, datasetInfo>>
    /\ UNCHANGED laterVars

\* model.fit rejects: trainModel throws the error again (lines 277-280)
fitRejects ==
    /\ trainOut.done
    /\ trainOut.phase = "fitting"
    /\ trainOut' = [trainOut EXCEPT !.phase = "threw",
                                    !.error = [kind |-> "FitError", names |-> <<>>]]
    /\ UNCHANGED <<trainIn, splitIn, splitOut, processIn, datasetInfo>>
    /\ UNCHANGED laterVars

TrainNext == trainModel \/ fitResolves \/ fitRejects

TrainSpec == TrainInit /\ [][TrainNext]_vars

\* the widths that trainModel compares
ModelInputUnits == trainIn.model.inputUnits
ModelOutputUnits == trainIn.model.outputUnits
DataInputUnits == Len(trainIn.trainingData.xs[1])
DataOutputUnits == Len(trainIn.trainingData.ys[1])

(***************************************************************************)
(* C6: when the model's input feature count differs from that of the       *)
(* training data, trainModel fails with an error naming both counts, it    *)
(* reshapes nothing and never invokes fit.                                 *)
(***************************************************************************)
C6_InputMismatchFatal ==
    (trainOut.done /\ ModelInputUnits # DataInputUnits) =>
        /\ trainOut.phase = "threw"
        /\ trainOut.error.kind = "InputShapeMismatch"
        /\ trainOut.error.names = <<ModelInputUnits, DataInputUnits>>
        /\ trainOut.reshape = "none"
        /\ ~trainOut.fit.called
        /\ ~trainOut.evaluated

\* the data has fewer features than the model expects and its targets
\* would need a reshape
C6_Witness ==
    /\ trainOut.done
    /\ ModelInputUnits = 2 /\ DataInputUnits = 1
    /\ ModelOutputUnits = 1 /\ DataOutputUnits = 3
    /\ trainOut.phase = "threw"

(***************************************************************************)
(* C7: with a model of 1 output unit and targets of N > 1 columns, the     *)
(* targets handed to fit, and the test targets handed over as validation   *)
(* data, have 1 column, its value the arg-max index in 0..N-1 of the       *)
(* original row.                                                           *)
(***************************************************************************)
\* k is the index of the first largest entry of row
IsArgMax(k, row) ==
    /\ k \in 0..(Len(row) - 1)
    /\ \A j \in 1..Len(row) : row[j].num * row[k + 1].den <= row[k + 1].num * row[j].den
    /\ \A j \in 1..k : row[j].num * row[k + 1].den < row[k + 1].num * row[j].den

CollapsedFrom(collapsed, original) ==
    /\ Len(collapsed) = Len(original)
    /\ \A r \in 1..Len(original) :
          /\ Len(collapsed[r]) = 1
          /\ collapsed[r][1].den = 1
          /\ IsArgMax(collapsed[r][1].num, original[r])

C7_CollapseToArgMax ==
    (trainOut.done /\ trainOut.fit.called
        /\ ModelOutputUnits = 1 /\ DataOutputUnits > 1) =>
        /\ CollapsedFrom(trainOut.fit.ys, trainIn.trainingData.ys)
        /\ trainIn.trainingData.hasTest =>
              /\ trainOut.fit.hasValidation
              /\ CollapsedFrom(trainOut.fit.validationYs,
                               trainIn.trainingData.ysTest)

\* one-hot targets of width 3 collapsed to the class indices 2 and 1, the
\* test target to 0, and the training carried through to the evaluation
C7_Witness ==
    /\ trainOut.done /\ trainOut.phase = "returned" /\ trainOut.evaluated
    /\ ModelOutputUnits = 1
    /\ trainIn.trainingData.ys = <<TfOneHot(2, 3), TfOneHot(1, 3)>>
    /\ trainIn.trainingData.ysTest = <<TfOneHot(0, 3)>>
    /\ trainOut.fit.ys = <<<<Int2Num(2)>>, <<Int2Num(1)>>>>
    /\ trainOut.fit.validationYs = <<<<Int2Num(0)>>>>

(***************************************************************************)
(* C8: with a model of N > 1 output units and targets of 1 column, every   *)
(* target row handed to fit, and every test target row, has width N and is *)
(* a one-hot row whose 1 stands at the class index nearest to the scalar.  *)
(***************************************************************************)
\* row is a one-hot row of the given width; its 1 stands at the rounded
\* scalar when that is a class index
ExpandedFrom(row, scalar, width) ==
    /\ Len(row) = width
    /\ \E k \in 0..(width - 1) :
          /\ row[k + 1] = Int2Num(1)
          /\ \A j \in 1..width : j # k + 1 => row[j] = Int2Num(0)
          /\ (\E c \in 0..(width - 1) : IsRounded(c, scalar.num, scalar.den))
                => IsRounded(k, scalar.num, scalar.den)

AllExpandedFrom(expanded, original, width) ==
    /\ Len(expanded) = Len(original)
    /\ \A r \in 1..Len(original) :
          ExpandedFrom(expanded[r], original[r][1], width)

C8_ExpandToOneHot ==
    (trainOut.done /\ trainOut.fit.called
        /\ ModelOutputUnits > 1 /\ DataOutputUnits = 1) =>
        /\ AllExpandedFrom(trainOut.fit.ys, trainIn.trainingData.ys,
                           ModelOutputUnits)
        /\ trainIn.trainingData.hasTest =>
              AllExpandedFrom(trainOut.fit.validationYs,
                              trainIn.trainingData.ysTest, ModelOutputUnits)

(***************************************************************************)
(* C9: for output widths M (model) and D (data) that differ and are        *)
(* neither M = 1 with D > 1 nor M > 1 with D = 1, trainModel fails with an *)
(* error naming both widths and never invokes fit; when M = D the targets  *)
(* go to fit unchanged.                                                    *)
(***************************************************************************)
Irreconcilable ==
    /\ ModelOutputUnits # DataOutputUnits
    /\ ~(ModelOutputUnits = 1 /\ DataOutputUnits > 1)
    /\ ~(ModelOutputUnits > 1 /\ DataOutputUnits = 1)

FailsNamingBothWidths ==
    /\ trainOut.phase = "threw"
    /\ trainOut.error.kind = "CannotReshape"
    /\ trainOut.error.names = <<DataOutputUnits, ModelOutputUnits>>
    /\ ~trainOut.fit.called
    /\ ~trainOut.evaluated

TargetsUnchanged ==
    (trainOut.fit.called /\ ModelOutputUnits = DataOutputUnits) =>
        /\ trainOut.reshape = "none"
        /\ trainOut.fit.ys = trainIn.trainingData.ys
        /\ trainIn.trainingData.hasTest =>
              trainOut.fit.validationYs = trainIn.trainingData.ysTest

\* the claim as stated: for every such pair of widths
C9_OtherMismatchFatal ==
    trainOut.done =>
        /\ Irreconcilable => FailsNamingBothWidths
        /\ TargetsUnchanged

\* C9 as amended: the same, for the calls whose input feature counts match;
\* the others fail with the error that names the feature counts
C9_OtherMismatchFatalWhenInputsMatch ==
    trainOut.done =>
        /\ (Irreconcilable /\ ModelInputUnits = DataInputUnits)
              => FailsNamingBothWidths
        /\ (Irreconcilable /\ ModelInputUnits # DataInputUnits)
              => (trainOut.phase = "threw" /\ ~trainOut.fit.called)
        /\ TargetsUnchanged

\* a model of 2 output units against one-hot targets of 3 columns
C9_Witness ==
    /\ trainOut.done
    /\ ModelInputUnits = DataInputUnits
    /\ ModelOutputUnits = 2 /\ DataOutputUnits = 3
    /\ trainOut.phase = "threw"
    /\ trainOut.error.names = <<3, 2>>

(***************************************************************************)
(* C15: when the test set is empty (as after a split with                  *)
(* round(numSamples * testFraction) = 0), trainModel does not invoke       *)
(* evaluate on the empty set.                                              *)
(***************************************************************************)
EmptyTestSet ==
    /\ trainIn.trainingData.hasTest
    /\ Len(trainIn.trainingData.xsTest) = 0
    /\ Len(trainIn.trainingData.ysTest) = 0

C15_NoEvaluateOnEmptyTestSet ==
    (trainOut.done /\ EmptyTestSet) => ~trainOut.evaluated

(***************************************************************************)
(* C10: fit is never invoked with a loss that does not fit the targets: a  *)
(* model compiled with categorical cross-entropy never gets targets of     *)
(* width 1, one compiled with binary cross-entropy never gets targets of   *)
(* another width than 1; trainModel fails before fit instead.              *)
(***************************************************************************)
C10_LossTargetCompatible ==
    (trainOut.done /\ trainOut.fit.called) =>
        /\ trainIn.model.loss = "categoricalCrossentropy"
              => Len(trainOut.fit.ys[1]) # 1
        /\ trainIn.model.loss = "binaryCrossentropy"
              => Len(trainOut.fit.ys[1]) = 1

(***************************************************************************)
(* predict (services/modelService.ts, lines 284-324), called for a sample  *)
(* of the processed dataset with the stored normalization parameters and   *)
(* label list.  What the network answers is not modelled: predictionData   *)
(* is any of a few vectors of the width of the output layer.               *)
(***************************************************************************)
\* normalizeInfo.means[i] || 0, i 0-based
MeanOrZero(means, i) ==
    IF i + 1 > Len(means) THEN Int2Num(0)
    ELSE IF IsNaN(means[i + 1]) \/ means[i + 1].num = 0 THEN Int2Num(0)
    ELSE means[i + 1]

StdStored(stds, i) == stds[i + 1]

\* normalizeInfo.stds[i] || 1, i 0-based
StdOrOne(stds, i) ==
    IF i + 1 > Len(stds) THEN StdOne
    ELSE IF StdIsZero(stds[i + 1]) THEN StdOne
    ELSE stds[i + 1]

\* input.map((val, i) => (val - mean) / std)
NormalizedInput(input, normalizeInfo) ==
    [k \in 1..Len(input) |->
        ZScore(input[k], MeanOrZero(normalizeInfo.means, k - 1),
               StdOrOne(normalizeInfo.stds, k - 1))]

ClassFromEnd(labelClasses, maxIndex) == labelClasses[Len(labelClasses) - maxIndex]

\* labelClasses[maxIndex]
ClassAt(labelClasses, maxIndex) == labelClasses[maxIndex + 1]

Predict(input, normalizeInfo, hasLabelClasses, labelClasses, predictionData) ==
    LET maxIndex == ArgMax(predictionData)
    IN  [done |-> TRUE,
         input |-> input,
         predictionData |-> predictionData,
         normalizedInput |-> NormalizedInput(input, normalizeInfo),
         hasClass |-> hasLabelClasses,
         class |-> IF hasLabelClasses THEN ClassAt(labelClasses, maxIndex)
                   ELSE Undefined,
         probability |-> IF hasLabelClasses THEN predictionData[maxIndex + 1]
                         ELSE NaN,
         value |-> predictionData[1]]

\* the targets of the datasets that predictions are made for
PredictTargetCells == {Str("A"), Str("B"), Num(1)}

PredictDatasets ==
    {SmallDataset(targets, pattern) :
        targets \in UNION {[1..n -> PredictTargetCells] : n \in 1..MaxRows},
        pattern \in FeaturePatterns}

PredictInit ==
    /\ \E d \in PredictDatasets :
          processIn = [called |-> TRUE, data |-> d, targetColumn |-> "label",
                       testSize |-> DefaultTestFraction]
    /\ datasetInfo = NoResult
    /\ prediction = NoResult
    /\ controller = NotLoaded
    /\ calls = NotLoaded
    /\ app = NotLoaded
    /\ architecture = NoResult
    /\ splitIn = NoCall
    /\ splitOut = NoResult
    /\ trainIn = NoCall
    /\ trainOut = NoResult

\* the width of the output layer of a model built for the dataset
OutputWidth ==
    IF datasetInfo.hasLabels THEN Len(datasetInfo.outputLabels) ELSE 1

predict ==
    /\ datasetInfo.done /\ datasetInfo.ok
    /\ ~prediction.done
    /\ \E r \in 1..Len(datasetInfo.numericFeatures),
          predictionData \in TargetRows(OutputWidth) :
          prediction' = Predict(datasetInfo.numericFeatures[r],
                                [means |-> datasetInfo.tensors.means,
                                 stds |-> datasetInfo.tensors.stds],
                                datasetInfo.hasLabels, datasetInfo.outputLabels,
                                predictionData)
    /\ UNCHANGED <<splitIn, splitOut, processIn, datasetInfo, trainIn, trainOut>>
    /\ UNCHANGED <<controller, calls, app, architecture>>

PredictNext == processData \/ predict

PredictSpec == PredictInit /\ [][PredictNext]_vars

(***************************************************************************)
(* C18: for a string-valued classification target, outputLabels holds each *)
(* distinct target value exactly once, in the order of first occurrence in *)
(* the rows, so the rows and the target column determine the list; and     *)
(* predict decodes class index i to outputLabels[i], the label that the    *)
(* encoder gave index i.                                                   *)
(***************************************************************************)
\* the first row, 1-based, whose target is value
FirstOccurrence(value) ==
    CHOOSE r \in 1..Len(processIn.data) :
        /\ TargetColumnCells[r] = value
        /\ \A q \in 1..(r - 1) : TargetColumnCells[q] # value

LabelsInFirstOccurrenceOrder ==
    LET labels == datasetInfo.outputLabels
    IN  /\ Range(labels) = DistinctTargets
        /\ Len(labels) = Cardinality(DistinctTargets)
        /\ \A i, j \in 1..Len(labels) :
              i < j => FirstOccurrence(labels[i]) < FirstOccurrence(labels[j])

\* the class predicted from the encoded target of a row is that row's label
DecodesWhatWasEncoded ==
    (prediction.done /\ prediction.hasClass) =>
        /\ \E i \in 0..(Len(datasetInfo.outputLabels) - 1) :
              /\ IsArgMax(i, prediction.predictionData)
              /\ prediction.class = datasetInfo.outputLabels[i + 1]
        /\ \A r \in 1..Len(processIn.data) :
              prediction.predictionData = datasetInfo.outputValues[r]
                 => prediction.class = TargetColumnCells[r]

C18_LabelOrderAndDecode ==
    (datasetInfo.done /\ datasetInfo.ok /\ TargetsAreStrings) =>
        /\ LabelsInFirstOccurrenceOrder
        /\ DecodesWhatWasEncoded

\* the labels B, A, B: the list is B, A, not sorted, and the encoded target
\* of the second row is decoded to A
C18_Witness ==
    /\ datasetInfo.done /\ datasetInfo.ok /\ TargetsAreStrings
    /\ datasetInfo.outputLabels = <<Str("B"), Str("A")>>
    /\ Len(processIn.data) = 3
    /\ prediction.done
    /\ prediction.predictionData = datasetInfo.outputValues[2]
    /\ prediction.class = Str("A")

(***************************************************************************)
(* C19: predict normalizes the input with the stored means and stds, and   *)
(* for every sample of the dataset the vector it computes from the raw     *)
(* feature row equals the row normalizeData produced for that sample, also *)
(* where a feature has zero variance.                                      *)
(***************************************************************************)
\* two z-scores are the same number
SameZScore(a, b) ==
    /\ a.diff.den # 0 /\ b.diff.den # 0
    /\ a.diff.num * b.diff.den = b.diff.num * a.diff.den
    /\ a.over.sqrtOf.den # 0 /\ b.over.sqrtOf.den # 0
    /\ a.over.sqrtOf.num * b.over.sqrtOf.den
          = b.over.sqrtOf.num * a.over.sqrtOf.den

SameRow(a, b) ==
    /\ Len(a) = Len(b)
    /\ \A i \in 1..Len(a) : SameZScore(a[i], b[i])

\* the predicted input agrees with every row of the normalized tensors
\* that came from a sample with the same raw features
AgreesWithNormalizer ==
    /\ \A k \in 1..Len(datasetInfo.tensors.trainX) :
          datasetInfo.numericFeatures[datasetInfo.trainIndices[k] + 1]
                = prediction.input
             => SameRow(prediction.normalizedInput, datasetInfo.tensors.trainX[k])
    /\ \A k \in 1..Len(datasetInfo.tensors.testX) :
          datasetInfo.numericFeatures[datasetInfo.testIndices[k] + 1]
                = prediction.input
             => SameRow(prediction.normalizedInput, datasetInfo.tensors.testX[k])

C19_PredictAgreesWithNormalizer ==
    (datasetInfo.done /\ datasetInfo.ok /\ prediction.done) =>
        AgreesWithNormalizer

\* a prediction for a dataset whose feature column is constant (stored
\* standard deviation 0), and one whose column varies
C19_Witness ==
    /\ datasetInfo.done /\ datasetInfo.ok /\ prediction.done
    /\ Len(processIn.data) = 2
    /\ StdIsZero(datasetInfo.tensors.stds[1])
    /\ prediction.normalizedInput[1].diff.num = 0
    /\ prediction.normalizedInput[1].over = StdOne

C19_WitnessVarying ==
    /\ datasetInfo.done /\ datasetInfo.ok /\ prediction.done
    /\ ~StdIsZero(datasetInfo.tensors.stds[1])
    /\ prediction.normalizedInput[1].diff.num # 0

(***************************************************************************)
(* predictOptimalArchitecture (utils/dataProcessing.ts, lines 254-295)     *)
(***************************************************************************)
Min(a, b) == IF a < b THEN a ELSE b
Max(a, b) == IF a > b THEN a ELSE b

\* Math.floor(Math.log2(n)) for n >= 1
RECURSIVE FloorLog2(_)
FloorLog2(n) == IF n < 2 THEN 0 ELSE 1 + FloorLog2(n \div 2)

HiddenLayerCountUncapped(numFeatures) ==
    IF numFeatures < 1 THEN 1 ELSE Max(1, FloorLog2(numFeatures))

\* Math.min(3, Math.max(1, Math.floor(Math.log2(numFeatures)))), where
\* Math.log2(0) is -Infinity
HiddenLayerCount(numFeatures) ==
    IF numFeatures < 1 THEN 1 ELSE Min(3, Max(1, FloorLog2(numFeatures)))

RECURSIVE HiddenWidthsRounded(_, _)
HiddenWidthsRounded(numFeatures, count) ==
    IF count = 1 THEN <<Min(128, Max(numFeatures * 2, 10))>>
    ELSE LET before == HiddenWidthsRounded(numFeatures, count - 1)
         IN  Append(before, Max(10, (4 * before[count - 1] + 3) \div 6))

\* the widths pushed before the output width; Math.floor(w / 1.5) is the
\* integer part of 2 w / 3
RECURSIVE HiddenWidths(_, _)
HiddenWidths(numFeatures, count) ==
    IF count = 1 THEN <<Min(128, Max(numFeatures * 2, 10))>>
    ELSE LET before == HiddenWidths(numFeatures, count - 1)
         IN  Append(before, Max(10, (2 * before[count - 1]) \div 3))

OutputLayerSize(info) ==
    IF info.isClassification
    THEN IF info.hasLabels /\ Len(info.outputLabels) > 2
         THEN Len(info.outputLabels) ELSE 1
    ELSE 1

PredictOptimalArchitecture(info) ==
    LET numFeatures == Len(info.features)
        numExamples == Len(info.numericFeatures)
        hiddenLayerCount == HiddenLayerCount(numFeatures)
    IN  [layers |-> hiddenLayerCount + 2,
         hiddenLayers |-> hiddenLayerCount,
         neuronsPerLayer |-> Append(HiddenWidths(numFeatures, hiddenLayerCount),
                                    OutputLayerSize(info)),
         learningRate |-> Rat(1, 1000),
         batchSize |-> Min(32, Max(8, numExamples \div 10)),
         epochs |-> Min(200, Max(50, 10000 \div numExamples)),
         optimizer |-> "adam",
         taskType |-> IF info.isClassification THEN "classification"
                      ELSE "regression"]

(***************************************************************************)
(* ModelController (services/modelController.ts).  The asynchronous        *)
(* methods run in steps: from the call, or from the point where an await   *)
(* resumes, to the next await or the return.  Between the steps of one     *)
(* call the steps of other calls run.  What the training library does      *)
(* between the call of model.fit and its settling is seen through the      *)
(* callbacks it invokes.                                                   *)
(***************************************************************************)
\* buildModel calls made in a session
MaxCalls == 2

\* epochs asked for in the parameters of a buildModel call
MaxEpochs == 2

NoModel == [built |-> FALSE]
NoTrainingResult == [present |-> FALSE]
IdleCall == [pc |-> "idle"]

NewController ==
    [loaded |-> TRUE,
     data |-> <<>>,
     columns |-> <<>>,
     processedData |-> NoResult,
     model |-> NoModel,
     trainingResult |-> NoTrainingResult,
     datasetInfo |-> NoResult,
     trainingStatus |-> [isTraining |-> FALSE, currentEpoch |-> 0,
                         totalEpochs |-> 0]]

\* statusCallback tells whether the caller of buildModel passes the
\* optional statusCallback
NoCalls ==
    [loaded |-> TRUE,
     statusCallback |-> FALSE,
     upload |-> IdleCall,
     build |-> [c \in 1..MaxCalls |-> IdleCall]]

\* a file with the one column "label": processData finds no feature in it
OneColumnRows == <<<<[name |-> "label", cell |-> Str("A")]>>>>

\* the files uploaded: one that cannot be read, one without rows, files
\* whose first column, the target, holds one label or two labels, and one
\* whose only column is the target
UploadedRows ==
    {<<>>,
     SmallDataset(<<Str("A")>>, <<Num(1)>>),
     SmallDataset(<<Str("A"), Str("B")>>, <<Num(1), Num(3)>>),
     OneColumnRows}

UploadFiles ==
    {[readable |-> TRUE, rows |-> rows] : rows \in UploadedRows}
        \cup {[readable |-> FALSE, rows |-> <<>>]}

\* the parameters of the buildModel calls: three layers with their widths,
\* or a list of widths that is too short for the layers
BuildParameters ==
    {[layers |-> 3, neuronsPerLayer |-> <<10, 10, 1>>, epochs |-> MaxEpochs],
     [layers |-> 3, neuronsPerLayer |-> <<10>>, epochs |-> 1]}

ControllerInit ==
    /\ controller = NewController
    /\ calls = NoCalls
    /\ app = NotLoaded
    /\ architecture = NoResult
    /\ splitIn = NoCall
    /\ splitOut = NoResult
    /\ processIn = NoCall
    /\ datasetInfo = NoResult
    /\ trainIn = NoCall
    /\ trainOut = NoResult
    /\ prediction = NoResult

\* processFile from the call to the await of processData (lines 43-60, and
\* the catch of lines 69-75): the file is read and parsed, an empty result
\* is refused, data and columns are stored and the rows are processed with
\* the first column as target
processFileParsed ==
    /\ controller.loaded
    /\ calls.upload.pc = "idle"
    /\ \E file \in UploadFiles :
          IF ~file.readable \/ Len(file.rows) = 0
          THEN UNCHANGED <<controller, calls>>
          ELSE \E indices \in BoundedShuffles(Len(file.rows)) :
                  LET columns == ObjectKeys(file.rows[1])
                      processedData ==
                          ProcessDataWith(file.rows, columns[1],
                                          DefaultTestFraction, indices)
                  IN  /\ controller' = [controller EXCEPT !.data = file.rows,
                                                          !.columns = columns]
                      /\ calls' =
                            IF processedData.ok
                            THEN [calls EXCEPT !.upload =
                                     [pc |-> "awaitingProcessData",
                                      processedData |-> processedData]]
                            ELSE calls
    /\ UNCHANGED <<functionVars, app>>

\* processFile after the await (lines 60-68)
processFileStored ==
    /\ controller.loaded
    /\ calls.upload.pc = "awaitingProcessData"
    /\ controller' = [controller EXCEPT
                         !.processedData = calls.upload.processedData,
                         !.datasetInfo = calls.upload.processedData]
    /\ calls' = [calls EXCEPT !.upload = IdleCall]
    /\ UNCHANGED <<functionVars, app>>

\* what getRecommendedParameters returns (lines 79-89)
RecommendedParameters(ctrl) ==
    IF ~ctrl.datasetInfo.done THEN [isNull |-> TRUE]
    ELSE PredictOptimalArchitecture(ctrl.datasetInfo)

\* what getModelState returns (lines 205-214)
ModelState(ctrl) ==
    [dataInfo |-> ctrl.datasetInfo,
     hasData |-> Len(ctrl.data) > 0,
     isTraining |-> ctrl.trainingStatus.isTraining,
     hasModel |-> ctrl.model # NoModel,
     trainingStatus |-> ctrl.trainingStatus,
     trainingResult |-> ctrl.trainingResult]

\* the two getters assign nothing
getRecommendedParameters ==
    /\ controller.loaded
    /\ UNCHANGED <<controller, calls>>
    /\ UNCHANGED <<functionVars, app>>

getModelState ==
    /\ controller.loaded
    /\ UNCHANGED <<controller, calls>>
    /\ UNCHANGED <<functionVars, app>>

\* createModel throws when a layer gets a width that is no positive integer:
\* the first layer takes neuronsPerLayer[0], the layers 1 .. totalLayers-2
\* take neuronsPerLayer[i] (modelService.ts, lines 67-79)
CreateModelThrows(parameters) ==
    \E i \in {0} \cup 1..(parameters.layers - 2) :
        \/ i + 1 > Len(parameters.neuronsPerLayer)
        \/ parameters.neuronsPerLayer[i + 1] < 1

\* lines 102-105
OutputUnits(info) ==
    IF info.isClassification
    THEN IF info.hasLabels /\ Len(info.outputLabels) # 0
         THEN Len(info.outputLabels) ELSE 1
    ELSE 1

\* lines 132-137
TrainingDataOf(info) ==
    [xs |-> info.tensors.trainX, ys |-> info.tensors.trainY, hasTest |-> TRUE,
     xsTest |-> info.tensors.testX, ysTest |-> info.tensors.testY]

\* lines 119-125
ResetTrainingStatus(parameters) ==
    [isTraining |-> TRUE, currentEpoch |-> 0, totalEpochs |-> parameters.epochs]

StatusAfterEpoch(status, epoch) == [status EXCEPT !.currentEpoch = epoch + 1]

AfterTrainEndDisposing(ctrl) ==
    [ctrl EXCEPT !.trainingStatus.isTraining = FALSE,
                 !.datasetInfo.tensors.trainX = <<>>,
                 !.datasetInfo.tensors.trainY = <<>>]

\* the onTrainEnd callback, line 158
AfterTrainEnd(ctrl) == [ctrl EXCEPT !.trainingStatus.isTraining = FALSE]

AfterCatchStillTraining(ctrl) == ctrl

\* the catch of buildModel, line 192
AfterCatch(ctrl) == [ctrl EXCEPT !.trainingStatus.isTraining = FALSE]

\* if (statusCallback) statusCallback(status), lines 127-129, 152-154,
\* 160-162 and 193-195: delivered holds the statuses the callback of one
\* buildModel call has been called with, as they were at the call (the
\* first is this.trainingStatus itself, the later ones are copies)
Deliver(delivered, from, status) ==
    IF calls.statusCallback
    THEN Append(delivered, [from |-> from, status |-> status])
    ELSE delivered

\* the activation record of a buildModel call that awaits trainModel
Awaiting(entered, parameters) ==
    [pc |-> "awaitingTrainModel",
     delivered |-> Deliver(<<>>, "buildModel", ResetTrainingStatus(parameters)),
     phase |-> entered.phase,
     error |-> entered.error.kind,
     epochs |-> parameters.epochs,
     epochsDone |-> 0,
     trainEnded |-> FALSE,
     hasValidation |-> entered.fit.hasValidation]

Returned(success, error) ==
    [pc |-> "returned", success |-> success, error |-> error]

\* a buildModel call that has returned, with the statuses it delivered
BuildReturned(success, error, delivered) ==
    [pc |-> "returned", success |-> success, error |-> error,
     delivered |-> delivered]

\* buildModel from the call to the await of trainModel (lines 92-140), with
\* the part of trainModel that runs before it awaits model.fit; createModel
\* is either of the two copies of modelService.ts
buildModel(c) ==
    /\ controller.loaded
    /\ calls.build[c].pc = "idle"
    /\ \A b \in 1..(c - 1) : calls.build[b].pc # "idle"
    /\ \E parameters \in BuildParameters, copy \in {1, 2} :
          IF ~controller.datasetInfo.done
          THEN /\ calls' = [calls EXCEPT !.build[c] =
                               BuildReturned(FALSE, "NoData", <<>>)]
               /\ UNCHANGED controller
          ELSE IF CreateModelThrows(parameters)
          THEN /\ calls' = [calls EXCEPT !.build[c] =
                               BuildReturned(FALSE, "CreateModelError",
                                   Deliver(<<>>, "catch",
                                       AfterCatch(controller).trainingStatus))]
               /\ controller' = AfterCatch(controller)
          ELSE LET info == controller.datasetInfo
                   model == createModel(copy, <<Len(info.features)>>,
                                        OutputUnits(info), info.isClassification)
               IN  \E compilationDetails \in CompilationDetails(model) :
                      /\ controller' =
                            [controller EXCEPT
                                !.model = model,
                                !.trainingStatus = ResetTrainingStatus(parameters)]
                      /\ calls' = [calls EXCEPT !.build[c] =
                            Awaiting(TrainModelEnter(model, TrainingDataOf(info),
                                                     compilationDetails),
                                     parameters)]
    /\ UNCHANGED <<functionVars, app>>

InFit(c) ==
    /\ calls.build[c].pc = "awaitingTrainModel"
    /\ calls.build[c].phase = "fitting"
    /\ ~calls.build[c].trainEnded

\* model.fit ends an epoch and invokes onEpochEnd (lines 145-155)
onEpochEnd(c) ==
    /\ controller.loaded
    /\ InFit(c)
    /\ calls.build[c].epochsDone < calls.build[c].epochs
    /\ controller' = [controller EXCEPT !.trainingStatus =
                         StatusAfterEpoch(controller.trainingStatus,
                                          calls.build[c].epochsDone)]
    /\ calls' = [calls EXCEPT
                    !.build[c].epochsDone = @ + 1,
                    !.build[c].delivered =
                        Deliver(@, "onEpochEnd",
                                StatusAfterEpoch(controller.trainingStatus,
                                                 calls.build[c].epochsDone))]
    /\ UNCHANGED <<functionVars, app>>

\* model.fit ends the last epoch and invokes onTrainEnd (lines 157-163)
onTrainEnd(c) ==
    /\ controller.loaded
    /\ InFit(c)
    /\ calls.build[c].epochsDone = calls.build[c].epochs
    /\ controller' = AfterTrainEnd(controller)
    /\ calls' = [calls EXCEPT
                    !.build[c].trainEnded = TRUE,
                    !.build[c].delivered =
                        Deliver(@, "onTrainEnd",
                                AfterTrainEnd(controller).trainingStatus)]
    /\ UNCHANGED <<functionVars, app>>

\* model.fit resolved and the evaluation went through: trainModel returns
\* and buildModel stores the result and returns (lines 140, 167-188)
buildModelReturns(c) ==
    /\ controller.loaded
    /\ calls.build[c].pc = "awaitingTrainModel"
    /\ calls.build[c].phase = "fitting"
    /\ calls.build[c].trainEnded
    /\ controller' = [controller EXCEPT !.trainingResult =
                         [present |-> TRUE,
                          evaluated |-> calls.build[c].hasValidation]]
    /\ calls' = [calls EXCEPT !.build[c] =
                    BuildReturned(TRUE, "none", calls.build[c].delivered)]
    /\ UNCHANGED <<functionVars, app>>

\* the error that ends the await of trainModel: the one trainModel threw
\* before model.fit, a rejection of model.fit before it has ended the
\* training, or an error thrown by model.evaluate after it
TrainModelErrors(call) ==
    IF call.phase = "threw" THEN {call.error}
    ELSE IF ~call.trainEnded THEN {"FitError"}
    ELSE IF call.hasValidation THEN {"EvaluateError"}
    ELSE {}

\* trainModel rejected: the catch of buildModel (lines 189-201)
buildModelCatches(c) ==
    /\ controller.loaded
    /\ calls.build[c].pc = "awaitingTrainModel"
    /\ \E error \in TrainModelErrors(calls.build[c]) :
          calls' = [calls EXCEPT !.build[c] =
                       BuildReturned(FALSE, error,
                           Deliver(calls.build[c].delivered, "catch",
                                   AfterCatch(controller).trainingStatus))]
    /\ controller' = AfterCatch(controller)
    /\ UNCHANGED <<functionVars, app>>

ControllerNext ==
    \/ processFileParsed
    \/ processFileStored
    \/ getRecommendedParameters
    \/ getModelState
    \/ \E c \in 1..MaxCalls :
          \/ buildModel(c)
          \/ onEpochEnd(c)
          \/ onTrainEnd(c)
          \/ buildModelReturns(c)
          \/ buildModelCatches(c)

ControllerSpec == ControllerInit /\ [][ControllerNext]_vars

(***************************************************************************)
(* C12: at most one training run is in flight: while one buildModel call   *)
(* awaits model.fit, no other buildModel call has created a model and      *)
(* started a fit of its own.                                               *)
(***************************************************************************)
C12_OneTrainingInFlight ==
    controller.loaded => Cardinality({c \in 1..MaxCalls : InFit(c)}) <= 1

(***************************************************************************)
(* C20: between two uploads nothing changes the stored dataset: a step of  *)
(* getRecommendedParameters, buildModel (with the shape reconciliation of  *)
(* trainModel and the callbacks of the training) or getModelState leaves   *)
(* datasetInfo, with its means, stds, outputLabels and tensors, as it was; *)
(* only the step of processFile that stores a new upload changes it.       *)
(***************************************************************************)
StoresUpload ==
    /\ calls.upload.pc = "awaitingProcessData"
    /\ calls'.upload.pc = "idle"
    /\ controller'.datasetInfo = calls.upload.processedData

C20_DatasetInfoFrame ==
    [][(controller.loaded /\ controller'.datasetInfo # controller.datasetInfo)
          => StoresUpload]_vars

\* after a training that went through and a second one that failed, and
\* with the getters answering, the two rows of the upload are still there
C20_Witness ==
    /\ controller.loaded
    /\ calls.build[1].pc = "returned" /\ calls.build[1].success
    /\ calls.build[2].pc = "returned" /\ ~calls.build[2].success
    /\ calls.upload.pc = "idle"
    /\ ModelState(controller).hasData
    /\ ~ModelState(controller).isTraining
    /\ RecommendedParameters(controller).layers = 3
    /\ Len(controller.datasetInfo.tensors.trainX) = 2
    /\ controller.datasetInfo.outputLabels = <<Str("A"), Str("B")>>

(***************************************************************************)
(* The App component (App.tsx): its state, and its handlers from the       *)
(* upload of a file to the end of a training. A handler reads the state of *)
(* the render it was invoked in; an asynchronous handler keeps that state  *)
(* across its awaits and writes it back with setNetworkState.              *)
(***************************************************************************)
\* lines 263-273 and 274-280
InitialModelParameters ==
    [layers |-> 3, neuronsPerLayer |-> <<5, 4, 3>>, epochs |-> 10]

NewApp ==
    [loaded |-> TRUE,
     networkState |-> [taskType |-> "null", dataUploaded |-> FALSE,
                       isTraining |-> FALSE, isModelBuilt |-> FALSE],
     trainingData |-> NoResult,
     model |-> NoModel,
     upload |-> IdleCall,
     train |-> IdleCall,
     trainings |-> 0]

AppRow(names, cells) ==
    [i \in 1..Len(names) |-> [name |-> names[i], cell |-> cells[i]]]

\* the files uploaded: one that cannot be read, one without rows, one with
\* a single column, one whose last column holds two labels and one with two
\* features whose last column holds the numbers 0 and 1
AppUploadedRows ==
    {<<>>,
     <<AppRow(<<"label">>, <<Str("A")>>)>>,
     <<AppRow(<<"x1", "label">>, <<Num(1), Str("A")>>),
       AppRow(<<"x1", "label">>, <<Num(3), Str("B")>>)>>,
     <<AppRow(<<"x1", "x2", "y">>, <<Num(1), Num(2), Num(0)>>),
       AppRow(<<"x1", "x2", "y">>, <<Num(3), Num(5), Num(1)>>)>>}

AppFiles ==
    {[readable |-> TRUE, rows |-> rows] : rows \in AppUploadedRows}
        \cup {[readable |-> FALSE, rows |-> <<>>]}

AppInit ==
    /\ app = NewApp
    /\ architecture = NoResult
    /\ controller = NotLoaded
    /\ calls = NotLoaded
    /\ splitIn = NoCall
    /\ splitOut = NoResult
    /\ processIn = NoCall
    /\ datasetInfo = NoResult
    /\ trainIn = NoCall
    /\ trainOut = NoResult
    /\ prediction = NoResult

appFrame == <<functionVars, controller, calls>>

\* handleFileUpload from the call to its first await (lines 296-300); the
\* Process Data button of the upload panel is there in every render
handleFileUpload ==
    /\ app.loaded
    /\ app.upload.pc = "idle"
    /\ \E file \in AppFiles :
          app' = [app EXCEPT !.upload = [pc |-> "awaitingFile", file |-> file,
                                         networkState |-> app.networkState]]
    /\ UNCHANGED appFrame

\* handleFileUpload after the file was read and parsed (lines 300-349):
\* the last column is the target
handleFileUploadParsed ==
    /\ app.loaded
    /\ app.upload.pc = "awaitingFile"
    /\ LET file == app.upload.file
       IN  IF \/ ~file.readable
              \/ Len(file.rows) = 0
              \/ Len(ObjectKeys(file.rows[1])) < 2
           THEN app' = [app EXCEPT !.upload = IdleCall]
           ELSE \E indices \in BoundedShuffles(Len(file.rows)) :
                   LET columns == ObjectKeys(file.rows[1])
                       processedData ==
                           ProcessDataWith(file.rows, columns[Len(columns)],
                                           DefaultTestFraction, indices)
                   IN  app' = [app EXCEPT
                                  !.upload = IdleCall,
                                  !.trainingData = processedData,
                                  !.networkState =
                                      [app.upload.networkState EXCEPT
                                          !.dataUploaded = TRUE]]
    /\ UNCHANGED appFrame

\* lines 356-361; the task selection is rendered once data is uploaded
handleTaskSelect ==
    /\ app.loaded
    /\ app.networkState.dataUploaded
    /\ \E taskType \in {"classification", "regression"} :
          app' = [app EXCEPT !.networkState.taskType = taskType]
    /\ UNCHANGED appFrame

\* lines 375-393
AppInputShape(trainingData) ==
    IF trainingData.done THEN <<Width(trainingData.tensors.trainX)>> ELSE <<5>>

AppOutputUnits(taskType, trainingData) ==
    IF ~trainingData.done THEN 1
    ELSE IF taskType = "classification" /\ trainingData.hasLabels
              /\ Len(trainingData.outputLabels) # 0
    THEN Len(trainingData.outputLabels)
    ELSE Width(trainingData.tensors.trainY)

\* lines 370-437; the model configuration is rendered once a task is chosen
handleBuildModel ==
    /\ app.loaded
    /\ app.networkState.taskType # "null"
    /\ IF CreateModelThrows(InitialModelParameters)
       THEN UNCHANGED app
       ELSE \E copy \in {1, 2} :
               app' = [app EXCEPT
                          !.model =
                              createModel(copy, AppInputShape(app.trainingData),
                                  AppOutputUnits(app.networkState.taskType,
                                                 app.trainingData),
                                  app.networkState.taskType = "classification"),
                          !.networkState.isModelBuilt = TRUE]
    /\ UNCHANGED appFrame

\* Math.max over the entries of trainY and testY, plus one (lines 514-518);
\* the targets of the files tried are whole numbers
MaxEntryPlusOne(tensors) ==
    LET entries == {tensors.trainY[r][1] : r \in 1..Len(tensors.trainY)}
                       \cup {tensors.testY[r][1] : r \in 1..Len(tensors.testY)}
        largest == CHOOSE v \in entries : \A w \in entries : ~RatLess(v, w)
    IN  RoundNumber(largest) + 1

NumClasses(trainingData) ==
    IF trainingData.hasLabels /\ Len(trainingData.outputLabels) # 0
    THEN Len(trainingData.outputLabels)
    ELSE IF trainingData.isClassification
    THEN MaxEntryPlusOne(trainingData.tensors)
    ELSE 1

Formatted(tensors, ys, ysTest) ==
    [ok |-> TRUE,
     data |-> [xs |-> tensors.trainX, ys |-> ys, hasTest |-> TRUE,
               xsTest |-> tensors.testX, ysTest |-> ysTest]]

FormatFailed(error) == [ok |-> FALSE, error |-> error]

\* the training data handed to trainModel, or the error thrown while it is
\* prepared (lines 468-564)
FormatTrainingData(taskType, model, trainingData) ==
    LET tensors == trainingData.tensors
        trainY == tensors.trainY
        testY == tensors.testY
        modelOutputUnits == model.outputUnits
    IN  IF taskType # "classification"
        THEN Formatted(tensors, trainY, testY)
        ELSE IF Width(trainY) > 1 /\ Width(trainY) # modelOutputUnits
        THEN IF modelOutputUnits = 1
             THEN Formatted(tensors, CollapseToIndex(trainY),
                            CollapseToIndex(testY))
             ELSE FormatFailed("ShapeMismatch")
        ELSE IF Width(trainY) = 1
        THEN IF NumClasses(trainingData) # modelOutputUnits
                  /\ modelOutputUnits > 1
             THEN FormatFailed("ClassCountMismatch")
             ELSE Formatted(tensors,
                            ExpandToOneHot(trainY, NumClasses(trainingData)),
                            ExpandToOneHot(testY, NumClasses(trainingData)))
        ELSE Formatted(tensors, trainY, testY)

\* setNetworkState({...networkState, isTraining: false}) of lines 643-646,
\* 669-672 and 676-679
NotTraining(networkState) == [networkState EXCEPT !.isTraining = FALSE]

\* handleTrainModel from the click to its await of trainModel (lines
\* 439-579): the Train button is rendered when there is a model and the
\* state is not training (lines 714 and 721); one training of the App is
\* followed at a time, and MaxCalls of them in a session
handleTrainModel ==
    /\ app.loaded
    /\ app.networkState.taskType # "null"
    /\ app.model # NoModel
    /\ ~app.networkState.isTraining
    /\ app.train.pc # "awaitingTrainModel"
    /\ app.trainings < MaxCalls
    /\ IF ~app.trainingData.done
       THEN UNCHANGED app
       ELSE LET formatted == FormatTrainingData(app.networkState.taskType,
                                                app.model, app.trainingData)
            IN  IF ~formatted.ok
                THEN app' = [app EXCEPT
                                !.trainings = @ + 1,
                                !.networkState = NotTraining(app.networkState),
                                !.train = Returned(FALSE, formatted.error)]
                ELSE \E compilationDetails \in CompilationDetails(app.model) :
                        LET entered == TrainModelEnter(app.model, formatted.data,
                                                       compilationDetails)
                        IN  app' = [app EXCEPT
                                !.trainings = @ + 1,
                                !.networkState.isTraining = TRUE,
                                !.train =
                                    [pc |-> "awaitingTrainModel",
                                     phase |-> entered.phase,
                                     error |-> entered.error.kind,
                                     hasValidation |-> entered.fit.hasValidation,
                                     classMetrics |->
                                         /\ app.networkState.taskType
                                                = "classification"
                                         /\ app.trainingData.hasLabels,
                                     networkState |-> app.networkState]]
    /\ UNCHANGED appFrame

\* trainModel resolved and the metrics were computed (lines 581-649)
handleTrainModelResumes ==
    /\ app.loaded
    /\ app.train.pc = "awaitingTrainModel"
    /\ app.train.phase = "fitting"
    /\ app' = [app EXCEPT
                  !.networkState = NotTraining(app.train.networkState),
                  !.train = Returned(TRUE, "none")]
    /\ UNCHANGED appFrame

\* the error that ends the try of lines 468-650: the one trainModel threw
\* before model.fit, a rejection of model.fit, an error of model.evaluate,
\* or one thrown while the predictions on the test set are counted
AppTrainErrors(call) ==
    IF call.phase = "threw" THEN {call.error}
    ELSE {"FitError"}
            \cup (IF call.hasValidation THEN {"EvaluateError"} ELSE {})
            \cup (IF call.classMetrics THEN {"MetricsError"} ELSE {})

\* the catch of lines 651-673
handleTrainModelCatches ==
    /\ app.loaded
    /\ app.train.pc = "awaitingTrainModel"
    /\ \E error \in AppTrainErrors(app.train) :
          app' = [app EXCEPT
                     !.networkState = NotTraining(app.train.networkState),
                     !.train = Returned(FALSE, error)]
    /\ UNCHANGED appFrame

AppNext ==
    \/ handleFileUpload
    \/ handleFileUploadParsed
    \/ handleTaskSelect
    \/ handleBuildModel
    \/ handleTrainModel
    \/ handleTrainModelResumes
    \/ handleTrainModelCatches

AppSpec == AppInit /\ [][AppNext]_vars

(***************************************************************************)
(* The controller after a failed training: the step in which a buildModel  *)
(* call returns success = false after it got past the test for data leaves *)
(* trainingStatus.isTraining false, and a call that has returned is not    *)
(* started again.                                                          *)
(***************************************************************************)
BuildModelFails(c) ==
    /\ calls.build[c].pc # "returned"
    /\ calls'.build[c].pc = "returned"
    /\ ~calls'.build[c].success
    /\ calls'.build[c].error # "NoData"

NoRetry(c) ==
    calls.build[c].pc = "returned" => calls'.build[c] = calls.build[c]

FailedBuildLeavesNotTraining ==
    [][controller.loaded =>
          \A c \in 1..MaxCalls :
              /\ BuildModelFails(c) => ~controller'.trainingStatus.isTraining
              /\ NoRetry(c)]_vars

FailedBuildReturned ==
    /\ controller.loaded
    /\ \E c \in 1..MaxCalls :
          /\ calls.build[c].pc = "returned"
          /\ calls.build[c].error = "FitError"
    /\ ~controller.trainingStatus.isTraining

AppTrainingFailed ==
    app.loaded /\ app.train.pc = "returned" /\ ~app.train.success

(***************************************************************************)
(* C11: a training run that fails after it was started leaves the session  *)
(* in the not-training state: from the failure of handleTrainModel until   *)
(* the user starts the next training, networkState.isTraining of the App   *)
(* is false and never stuck at true. (The controller's half of the claim   *)
(* is FailedBuildLeavesNotTraining.)                                       *)
(***************************************************************************)
C11_FailedRunLeavesNotTraining ==
    AppTrainingFailed => ~app.networkState.isTraining

(***************************************************************************)
(* The architecture heuristics on their own: predictOptimalArchitecture of *)
(* utils/dataProcessing.ts, which the controller calls, the function of    *)
(* the same name in services/dataService.ts, and createModel applied to    *)
(* the parameters recommended.                                             *)
(***************************************************************************)
\* feature columns of the datasets described
MaxArchFeatures == 70

\* samples of the datasets described, apart from LargeSampleCounts
MaxArchSamples == 330

\* sample counts around the thresholds of the heuristic of dataService.ts
LargeSampleCounts == {999, 1000, 1001, 10000, 10001}

\* every feature count is tried with FewSampleCounts, every sample count
\* with FewFeatureCounts
FewSampleCounts == {1, 50, 99, 100, 330} \cup LargeSampleCounts
FewFeatureCounts == {0, 1, 3, 4, 8, 64, 65}

\* the label counts of the targets: 0 for a target that is not a string
LabelCounts == {0, 1, 2, 3, 4}

\* the DatasetInfo of utils/dataProcessing.ts (lines 5-21) with the given
\* numbers of feature columns, samples and labels
ArchDatasetInfo(input) ==
    [features |-> [i \in 1..input.numFeatures |-> "x"],
     numericFeatures |-> [r \in 1..input.numSamples |-> <<>>],
     isClassification |-> input.isClassification,
     hasLabels |-> input.labelCount > 0,
     outputLabels |-> [i \in 1..input.labelCount |-> Str("L")]]

\* Math.round(x * 1.5) and Math.round(x * 1.2) of a whole number x
RoundTimesOneAndHalf(x) == (3 * x + 1) \div 2
RoundTimesOnePointTwo(x) == (12 * x + 5) \div 10

\* dataService.ts, lines 204-223
ServiceHiddenLayerSizes(numFeatures, numSamples) ==
    IF numSamples < 100 THEN <<Max(numFeatures, 5)>>
    ELSE IF numSamples < 1000
    THEN <<Max(RoundTimesOneAndHalf(numFeatures), 10), Max(numFeatures, 5)>>
    ELSE <<Max(2 * numFeatures, 20), Max(RoundTimesOneAndHalf(numFeatures), 15),
           Max(numFeatures, 10)>>

\* predictOptimalArchitecture of dataService.ts (lines 195-263)
ServicePredictOptimalArchitecture(dataInfo) ==
    LET sizes == ServiceHiddenLayerSizes(dataInfo.numFeatures,
                                         dataInfo.numSamples)
        hiddenLayerSizes ==
            IF dataInfo.hasCategoricalFeatures
            THEN [i \in 1..Len(sizes) |-> RoundTimesOnePointTwo(sizes[i])]
            ELSE sizes
    IN  [layers |-> Len(hiddenLayerSizes) + 2,
         neuronsPerLayer |->
             <<dataInfo.numFeatures>> \o hiddenLayerSizes
                 \o <<IF dataInfo.suggestedTask = "classification"
                      THEN 2 ELSE 1>>,
         learningRate |-> IF dataInfo.numSamples < 100 THEN Rat(1, 10)
                          ELSE IF dataInfo.numSamples < 1000 THEN Rat(1, 100)
                          ELSE Rat(1, 1000),
         batchSize |-> IF dataInfo.numSamples < 100 THEN 16
                       ELSE IF dataInfo.numSamples > 10000 THEN 64 ELSE 32,
         epochs |-> IF dataInfo.numSamples < 100 THEN 100
                    ELSE IF dataInfo.numSamples > 10000 THEN 20 ELSE 50,
         optimizer |-> "undefined"]

\* the units of the dense layers that createModel adds, in order: the first
\* layer, the layers of the loop and the output layer (modelService.ts,
\* lines 66-107, and the same in the second copy, lines 407-428)
DenseLayers(parameters, outputUnits) ==
    <<parameters.neuronsPerLayer[1]>>
        \o [i \in 1..(parameters.layers - 2) |-> parameters.neuronsPerLayer[i + 1]]
        \o <<outputUnits>>

ArchitectureInit ==
    /\ \E numFeatures \in 0..MaxArchFeatures,
          numSamples \in 1..MaxArchSamples \cup LargeSampleCounts,
          isClassification \in BOOLEAN,
          labelCount \in LabelCounts,
          hasCategoricalFeatures \in BOOLEAN :
          /\ numFeatures \in FewFeatureCounts \/ numSamples \in FewSampleCounts
          /\ labelCount > 0 => isClassification
          /\ architecture =
                [done |-> FALSE,
                 input |-> [numFeatures |-> numFeatures,
                            numSamples |-> numSamples,
                            isClassification |-> isClassification,
                            labelCount |-> labelCount,
                            hasCategoricalFeatures |-> hasCategoricalFeatures]]
    /\ controller = NotLoaded
    /\ calls = NotLoaded
    /\ app = NotLoaded
    /\ splitIn = NoCall
    /\ splitOut = NoResult
    /\ processIn = NoCall
    /\ datasetInfo = NoResult
    /\ trainIn = NoCall
    /\ trainOut = NoResult
    /\ prediction = NoResult

architectureFrame ==
    <<splitIn, splitOut, processIn, datasetInfo, trainIn, trainOut, prediction,
      controller, calls, app>>

\* the call of the heuristic of utils/dataProcessing.ts
predictOptimalArchitecture ==
    /\ ~architecture.done
    /\ ~architecture.input.hasCategoricalFeatures
    /\ architecture' =
          [done |-> TRUE, source |-> "utils", built |-> FALSE,
           input |-> architecture.input,
           parameters |->
               PredictOptimalArchitecture(ArchDatasetInfo(architecture.input))]
    /\ UNCHANGED architectureFrame

\* the call of the heuristic of dataService.ts
servicePredictOptimalArchitecture ==
    /\ ~architecture.done
    /\ architecture.input.labelCount = 0
    /\ architecture' =
          [done |-> TRUE, source |-> "dataService", built |-> FALSE,
           input |-> architecture.input,
           parameters |->
               ServicePredictOptimalArchitecture(
                   [numFeatures |-> architecture.input.numFeatures,
                    numSamples |-> architecture.input.numSamples,
                    hasCategoricalFeatures |->
                        architecture.input.hasCategoricalFeatures,
                    suggestedTask |->
                        IF architecture.input.isClassification
                        THEN "classification" ELSE "regression"])]
    /\ UNCHANGED architectureFrame

\* buildModel of the controller with the parameters recommended for its
\* dataset (modelController.ts, lines 101-116)
createModelAsRecommended ==
    /\ architecture.done
    /\ architecture.source = "utils"
    /\ ~architecture.built
    /\ ~CreateModelThrows(architecture.parameters)
    /\ architecture' =
          [done |-> TRUE, source |-> "utils", built |-> TRUE,
           input |-> architecture.input,
           parameters |-> architecture.parameters,
           outputUnits |-> OutputUnits(ArchDatasetInfo(architecture.input)),
           denseLayers |->
               DenseLayers(architecture.parameters,
                           OutputUnits(ArchDatasetInfo(architecture.input)))]
    /\ UNCHANGED architectureFrame

ArchitectureNext ==
    \/ predictOptimalArchitecture
    \/ servicePredictOptimalArchitecture
    \/ createModelAsRecommended

ArchitectureSpec == ArchitectureInit /\ [][ArchitectureNext]_vars

Recommended == architecture.done
RecommendedByUtils == architecture.done /\ architecture.source = "utils"

\* Array.prototype.at(-1) of a list that is not empty
Last(s) == s[Len(s)]

(***************************************************************************)
(* C21: the last entry of neuronsPerLayer that predictOptimalArchitecture  *)
(* returns is 1 for regression and for binary classification and the label *)
(* count for more than two labels, and it is the width of the encoded      *)
(* targets of the dataset and the output units buildModel creates the      *)
(* model with.                                                             *)
(***************************************************************************)
C21_OutputWidthAgrees ==
    (controller.loaded /\ controller.datasetInfo.done) =>
        LET info == controller.datasetInfo
            width == Last(RecommendedParameters(controller).neuronsPerLayer)
        IN  /\ width = IF info.isClassification /\ info.hasLabels
                            /\ Len(info.outputLabels) > 2
                       THEN Len(info.outputLabels) ELSE 1
            /\ width = Width(info.tensors.trainY)
            /\ width = OutputUnits(info)

\* the entries of neuronsPerLayer before the output width
WidthsBeforeOutput(parameters) ==
    SubSeq(parameters.neuronsPerLayer, 1, Len(parameters.neuronsPerLayer) - 1)

WidthsBounded(widths) ==
    /\ \A i \in 1..Len(widths) : widths[i] >= 10 /\ widths[i] <= 128
    /\ \A i \in 1..(Len(widths) - 1) : widths[i + 1] <= widths[i]

\* the heuristic of utils/dataProcessing.ts keeps the widths within bounds
UtilsWidthsBounded ==
    RecommendedByUtils => WidthsBounded(WidthsBeforeOutput(architecture.parameters))

(***************************************************************************)
(* C22: for every number of features (0 included), every number of samples *)
(* and either task, every width an architecture heuristic returns in       *)
(* neuronsPerLayer, the final output width excepted, is at least 10 and at *)
(* most 128, and the widths do not increase from one layer to the next.    *)
(***************************************************************************)
C22_WidthsBounded ==
    Recommended => WidthsBounded(WidthsBeforeOutput(architecture.parameters))

(***************************************************************************)
(* C23: for one feature or more, predictOptimalArchitecture returns        *)
(* hiddenLayers = clamp(floor(log2(numFeatures)), 1, 3), which is 1 for 1  *)
(* to 3 features, 2 for 4 to 7 and 3 for 8 or more; neuronsPerLayer has    *)
(* hiddenLayers + 1 entries and layers is hiddenLayers + 2.                *)
(***************************************************************************)
C23_HiddenLayerCount ==
    (RecommendedByUtils /\ architecture.input.numFeatures >= 1) =>
        LET n == architecture.input.numFeatures
            parameters == architecture.parameters
        IN  /\ n <= 3 => parameters.hiddenLayers = 1
            /\ (n >= 4 /\ n <= 7) => parameters.hiddenLayers = 2
            /\ n >= 8 => parameters.hiddenLayers = 3
            /\ Len(parameters.neuronsPerLayer) = parameters.hiddenLayers + 1
            /\ parameters.layers = parameters.hiddenLayers + 2

\* 16 features, where floor(log2) is 4 and the clamp cuts it to 3
C23_Witness ==
    /\ RecommendedByUtils
    /\ architecture.input.numFeatures = 16
    /\ architecture.parameters.hiddenLayers = 3
    /\ Len(architecture.parameters.neuronsPerLayer) = 4

\* q is Math.floor(w / 1.5)
IsFloorOfDividedBy1_5(q, w) == 3 * q <= 2 * w /\ 2 * w < 3 * q + 3

(***************************************************************************)
(* C24: for one feature or more, the hidden widths w that                  *)
(* predictOptimalArchitecture returns are w[0] = clamp(2 numFeatures, 10,  *)
(* 128) and w[i] = max(10, floor(w[i-1] / 1.5)) for every later layer.     *)
(***************************************************************************)
C24_HiddenWidths ==
    (RecommendedByUtils /\ architecture.input.numFeatures >= 1) =>
        LET n == architecture.input.numFeatures
            w == WidthsBeforeOutput(architecture.parameters)
        IN  /\ 2 * n < 10 => w[1] = 10
            /\ 2 * n > 128 => w[1] = 128
            /\ (2 * n >= 10 /\ 2 * n <= 128) => w[1] = 2 * n
            /\ \A i \in 2..Len(w) :
                  \E q \in 0..128 :
                     /\ IsFloorOfDividedBy1_5(q, w[i - 1])
                     /\ w[i] = IF q < 10 THEN 10 ELSE q

\* 65 features: the first width is cut to 128, then 85 and 56 follow
C24_Witness ==
    /\ RecommendedByUtils
    /\ architecture.input.numFeatures = 65
    /\ WidthsBeforeOutput(architecture.parameters) = <<128, 85, 56>>

\* what section 4.6 asks of the training parameters
TrainingParametersAsSpecified(numSamples, parameters) ==
    /\ \E q \in 0..numSamples :
          /\ 10 * q <= numSamples /\ numSamples < 10 * q + 10
          /\ parameters.batchSize = IF q < 8 THEN 8 ELSE IF q > 32 THEN 32 ELSE q
    /\ \E q \in 0..10000 :
          /\ numSamples * q <= 10000 /\ 10000 < numSamples * (q + 1)
          /\ parameters.epochs = IF q < 50 THEN 50 ELSE IF q > 200 THEN 200 ELSE q
    /\ parameters.batchSize >= 8 /\ parameters.batchSize <= 32
    /\ parameters.epochs >= 50 /\ parameters.epochs <= 200
    /\ parameters.learningRate = Rat(1, 1000)
    /\ parameters.optimizer = "adam"

\* the heuristic of utils/dataProcessing.ts returns them
UtilsTrainingParameters ==
    RecommendedByUtils =>
        TrainingParametersAsSpecified(architecture.input.numSamples,
                                      architecture.parameters)

(***************************************************************************)
(* C25: for every number of samples from 1 on, the architecture heuristic  *)
(* returns batchSize = clamp(floor(numSamples / 10), 8, 32) and epochs =   *)
(* clamp(floor(10000 / numSamples), 50, 200), so that batchSize is within  *)
(* 8..32 and epochs within 50..200, with learningRate 0.001 and the        *)
(* optimizer adam.                                                         *)
(***************************************************************************)
C25_TrainingParameters ==
    Recommended =>
        TrainingParametersAsSpecified(architecture.input.numSamples,
                                      architecture.parameters)

Processed == datasetInfo.done /\ datasetInfo.ok

(***************************************************************************)
(* C26: processData encodes a numeric feature cell as its value and every  *)
(* other feature cell (a string, a boolean, null, a missing cell) as 0;    *)
(* every encoded row has one entry per feature, none of them NaN.          *)
(***************************************************************************)
C26_FeatureEncoding ==
    Processed =>
        \A r \in 1..Len(datasetInfo.numericFeatures) :
           /\ Len(datasetInfo.numericFeatures[r]) = Len(datasetInfo.features)
           /\ \A i \in 1..Len(datasetInfo.features) :
                 LET cell == RowGet(datasetInfo.originalData[r],
                                    datasetInfo.features[i])
                 IN  datasetInfo.numericFeatures[r][i] =
                         IF cell.kind = "number" THEN cell.num ELSE 0

(***************************************************************************)
(* C27: the features that processData returns are the columns of the first *)
(* row in their order with the target column taken out: the target is not  *)
(* among them and every other column is there exactly once.                *)
(***************************************************************************)
C27_FeaturesExcludeTarget ==
    Processed =>
        LET columns == ObjectKeys(datasetInfo.originalData[1])
            features == datasetInfo.features
        IN  /\ \A i \in 1..Len(features) : features[i] # datasetInfo.target
            /\ \A c \in 1..Len(columns) :
                  columns[c] # datasetInfo.target =>
                      Cardinality({i \in 1..Len(features) :
                                      features[i] = columns[c]}) = 1
            /\ \A i, j \in 1..Len(features) :
                  i < j => \E c, d \in 1..Len(columns) :
                              /\ c < d
                              /\ columns[c] = features[i]
                              /\ columns[d] = features[j]

\* the target is the first of two columns, or the last of three
C27_Witness ==
    /\ Processed
    /\ datasetInfo.target = "label"
    /\ ObjectKeys(datasetInfo.originalData[1]) = <<"label", "x1">>
    /\ datasetInfo.features = <<"x1">>

C27_WitnessLast ==
    /\ Processed
    /\ ObjectKeys(datasetInfo.originalData[1]) = <<"x1", "x2", "label">>
    /\ datasetInfo.features = <<"x1", "x2">>

ModelBuilt == architecture.done /\ architecture.built

(***************************************************************************)
(* C28: a model that createModel builds from the recommended parameters    *)
(* has hiddenLayers hidden dense layers, whose widths are the first        *)
(* hiddenLayers entries of neuronsPerLayer, and then the output layer:     *)
(* hiddenLayers + 1 dense layers, the last entry of neuronsPerLayer never  *)
(* being the width of a hidden layer.                                      *)
(***************************************************************************)
C28_BuiltLayersAsRecommended ==
    ModelBuilt =>
        LET parameters == architecture.parameters
            hiddenLayers == parameters.layers - 2
        IN  /\ Len(architecture.denseLayers) = hiddenLayers + 1
            /\ SubSeq(architecture.denseLayers, 1, hiddenLayers) =
                   SubSeq(parameters.neuronsPerLayer, 1, hiddenLayers)
            /\ Last(architecture.denseLayers) = architecture.outputUnits

\* what the built model does have: one dense layer per entry of
\* neuronsPerLayer, the output width included, and then the output layer
C28_OutputWidthAsHiddenLayer ==
    ModelBuilt =>
        architecture.denseLayers =
            architecture.parameters.neuronsPerLayer
                \o <<architecture.outputUnits>>

NoUploadInFlight == controller.loaded /\ calls.upload.pc = "idle"

(***************************************************************************)
(* C29: processFile is all-or-nothing.  Whenever no processFile call is in *)
(* flight, the data, the columns and the datasetInfo of the controller are *)
(* those of one upload, the last that succeeded, so that getModelState()   *)
(* reports hasData = true exactly when its dataInfo is not null.           *)
(***************************************************************************)
C29_ProcessFileAllOrNothing ==
    NoUploadInFlight =>
        /\ ModelState(controller).hasData = ModelState(controller).dataInfo.done
        /\ controller.datasetInfo.done =>
              /\ controller.data = controller.datasetInfo.originalData
              /\ controller.columns = ObjectKeys(controller.data[1])

\* a processFile call that fails while processing the rows leaves no
\* datasetInfo behind and does not touch the one that is there
C29_FailedUploadKeepsDatasetInfo ==
    [][(calls.upload.pc = "idle" /\ calls'.upload.pc = "idle")
           => controller'.datasetInfo = controller.datasetInfo]_vars

(***************************************************************************)
(* The controller with a caller that passes a statusCallback to every      *)
(* buildModel call.                                                        *)
(***************************************************************************)
StatusInit ==
    /\ controller = NewController
    /\ calls = [NoCalls EXCEPT !.statusCallback = TRUE]
    /\ app = NotLoaded
    /\ architecture = NoResult
    /\ splitIn = NoCall
    /\ splitOut = NoResult
    /\ processIn = NoCall
    /\ datasetInfo = NoResult
    /\ trainIn = NoCall
    /\ trainOut = NoResult
    /\ prediction = NoResult

StatusSpec == StatusInit /\ [][ControllerNext]_vars

\* the statuses the statusCallback of call c has been called with
Delivered(c) ==
    IF calls.build[c].pc = "idle" THEN <<>> ELSE calls.build[c].delivered

\* the epoch index onEpochEnd was invoked with at report i of call c: the
\* fit invokes it with 0, 1, 2, ... in this order
EpochIndex(c, i) ==
    Cardinality({j \in 1..(i - 1) : Delivered(c)[j].from = "onEpochEnd"})

(***************************************************************************)
(* C30: the statuses one buildModel run delivers to its statusCallback     *)
(* have currentEpoch starting at 0, raised by every epoch-end report to    *)
(* the epoch index + 1 and above the status before, never above            *)
(* totalEpochs; isTraining is true on every status delivered before the    *)
(* training ends and false on the last one.                                *)
(***************************************************************************)
C30_StatusSequence ==
    \A c \in 1..MaxCalls :
        LET d == Delivered(c)
        IN  /\ d # <<>> => d[1].status.currentEpoch = 0
            /\ \A i \in 1..Len(d) :
                  /\ d[i].status.currentEpoch <= d[i].status.totalEpochs
                  /\ d[i].from = "onEpochEnd" =>
                        /\ d[i].status.currentEpoch = EpochIndex(c, i) + 1
                        /\ i > 1 => d[i].status.currentEpoch
                                        > d[i - 1].status.currentEpoch
                  /\ d[i].from \in {"buildModel", "onEpochEnd"} =>
                        d[i].status.isTraining
            /\ (calls.build[c].pc = "returned" /\ d # <<>>) =>
                  ~Last(d).status.isTraining

NoOtherRunMeanwhile(c) ==
    \A b \in 1..MaxCalls \ {c} : calls.build[b].pc # "awaitingTrainModel"

\* the first status of a run that is alone has currentEpoch 0
C30_StartsAtZeroWhenAlone ==
    \A c \in 1..MaxCalls :
        (NoOtherRunMeanwhile(c) /\ Delivered(c) # <<>>)
            => Delivered(c)[1].status.currentEpoch = 0

\* a run that got as far as the reset of the status (line 119) reports as
\* the claim says, whatever else goes on, but for isTraining
C30_EpochsOfStartedRun ==
    \A c \in 1..MaxCalls :
        LET d == Delivered(c)
        IN  (d # <<>> /\ d[1].from = "buildModel") =>
               /\ d[1].status.currentEpoch = 0
               /\ \A i \in 1..Len(d) :
                     /\ d[i].status.currentEpoch <= d[i].status.totalEpochs
                     /\ d[i].from = "onEpochEnd" =>
                           /\ d[i].status.currentEpoch = EpochIndex(c, i) + 1
                           /\ i > 1 => d[i].status.currentEpoch
                                           > d[i - 1].status.currentEpoch
               /\ calls.build[c].pc = "returned" => ~Last(d).status.isTraining

====
